---------------------------- MODULE Spec2Model ----------------------------
(***************************************************************************)
(* A model of memeplotlib's two-tier template cache (_cache.py), of the    *)
(* template resolution strategy and the Template (_template.py), and of    *)
(* the shrink-to-fit loop of the text layout (_rendering.py).              *)
(*                                                                         *)
(* Python values are modelled as follows: None is the string "None", an    *)
(* OrderedDict is a sequence of [key, value] records whose head is the     *)
(* oldest entry, a raised exception is the exception's name in the `exc'   *)
(* field of the record of the last call.                                   *)
(***************************************************************************)
EXTENDS Integers, Sequences, FiniteSets, TLC

VARIABLES
    max_memory,   \* TemplateCache._max_memory
    memory,       \* TemplateCache._memory: sequence of [key, value], oldest first
    dirs,         \* TRUE iff the cache directory tree (cache_dir, cache_dir/images) exists
    images,       \* the files cache_dir/images/<key>.png: key -> bytes or NoFile
    catalog,      \* the file cache_dir/catalog.json: its text, or NoCatalog
    now,          \* time.time()
    last,         \* the last step: the call, its arguments, its result, what it touched
    recency,      \* history: the keys in the order of their last touch, oldest first
    fs,           \* the local filesystem: the references p with Path(p).exists()
    cache_enabled,\* config.cache_enabled
    reg_catalog,  \* TemplateRegistry._catalog: a template list, or None
    tpl,          \* the Template under observation, NoTemplate before it is built
    image_array,  \* Template._image_array of that Template: a pixel buffer, or None
    fit,          \* the running call of _fit_text_to_box: its arguments, the
                  \* Text's font size, the measurements made, its position
    wrapped,      \* the last call of _smart_wrap or wrap_text: arguments and result
    coded,        \* the last call of encode_text_for_url or decode_text_from_url
    meme_lines,   \* Meme._lines of the Meme under observation
    texts,        \* the Text objects the last render added to its axes
    fetched_at,   \* history: when the list in TemplateRegistry._catalog came
                  \* from the listing request
    template_str, \* Meme._template_str of the Meme under observation
    meme_fig,     \* Meme._fig of that Meme: NoFigure, or the figure of its last render
    threads       \* the threads that call into one TemplateCache or one
                  \* TemplateRegistry: the call each is in and its position

cache_vars == <<max_memory, memory, dirs, images, catalog, now, recency>>
resolver_vars == <<fs, cache_enabled, reg_catalog>>
render_vars == <<tpl, image_array, fit>>
api_vars == <<wrapped, coded, meme_lines, texts, fetched_at,
              template_str, meme_fig, threads>>
vars == <<max_memory, memory, dirs, images, catalog, now, last, recency,
          fs, cache_enabled, reg_catalog, tpl, image_array, fit,
          wrapped, coded, meme_lines, texts, fetched_at,
          template_str, meme_fig, threads>>

None == "None"
NoFile == "NoFile"

(***************************************************************************)
(* Bounds and input sets.                                                  *)
(***************************************************************************)
MaxMemory == 2

URLs == {"u1", "u2", "u3"}

\* Raw image file bytes: two that decode (to different pixels), one that does not.
Decodable == {"png_a", "png_b"}
Undecodable == {"junk"}
Bytes == Decodable \cup Undecodable

\* time.time() at construction, and the instants the clock is observed at
\* (seconds): ages of 1 s, one second around a day, and 100,000 s occur.
Epoch == 1700000000
ClockPoints == {Epoch + d : d \in {0, 1, 2, 86399, 86400, 86401, 100000}}

\* The instants of a run that only asks whether a day has passed.
DayPoints == {Epoch + d : d \in {0, 86400, 86401}}

\* get_catalog's default ttl, and the ttl arguments of the model.
DEFAULT_TTL == 86400
TTLs == {1, DEFAULT_TTL}

\* Template lists (the catalog's "templates"), by name; CatalogEntries gives
\* their entries.
Catalogs == {"cat_empty", "cat_buzz", "cat_paths"}

(***************************************************************************)
(* Helpers of the image tier.                                              *)
(***************************************************************************)

\* hashlib.sha256(url.encode()).hexdigest()[:16]: one key per url of the model.
image_key(url) ==
    CASE url = "u1" -> "k1"
      [] url = "u2" -> "k2"
      [] url = "u3" -> "k3"
      [] url = "https://e/b.png" -> "k4"
      [] url = "/cwd/buzz.png" -> "k5"
      [] OTHER -> <<"sha256", url>>

\* The image_url of the Templates whose image is acquired: a remote URL and
\* the absolute form of a local path.
TemplateUrls == {"https://e/b.png", "/cwd/buzz.png"}

Keys == {image_key(u) : u \in URLs \cup TemplateUrls}

\* np.array(Image.open(...).convert("RGBA")): the pixel buffer, or "raise".
Decode(bytes) ==
    CASE bytes = "png_a" -> "img_a"
      [] bytes = "png_b" -> "img_b"
      [] OTHER -> "raise"

\* The keys of an OrderedDict.
KeysOf(mem) == {mem[i].key : i \in 1..Len(mem)}

\* key in self._memory
HasKey(mem, key) == key \in KeysOf(mem)

\* self._memory[key]
ValueOf(mem, key) == mem[CHOOSE i \in 1..Len(mem) : mem[i].key = key].value

\* OrderedDict.move_to_end(key): the entry becomes the newest, its value kept.
MoveToEnd(mem, key) ==
    LET i == CHOOSE j \in 1..Len(mem) : mem[j].key = key
    IN  SubSeq(mem, 1, i - 1) \o SubSeq(mem, i + 1, Len(mem)) \o <<mem[i]>>

\* Mutant of PopOldest: popitem() with last=True, the newest entry goes.
PopNewest(mem) == SubSeq(mem, 1, Len(mem) - 1)

\* OrderedDict.popitem(last=False) on a non-empty dict: the oldest entry goes.
PopOldest(mem) == Tail(mem)

\* Mutant of memory_put: the capacity test is > where the code has >=.
memory_put_off_by_one(mem, cap, key, value) ==
    IF HasKey(mem, key)
    THEN [memory |-> MoveToEnd(mem, key), raised |-> FALSE, evicted |-> None]
    ELSE IF Len(mem) > cap
         THEN [memory |-> Append(Tail(mem), [key |-> key, value |-> value]),
               raised |-> FALSE, evicted |-> Head(mem).key]
         ELSE [memory |-> Append(mem, [key |-> key, value |-> value]),
               raised |-> FALSE, evicted |-> None]

\* TemplateCache._memory_put. popitem on an empty dict raises KeyError, and
\* then the insertion is not reached. The result: the new dict, whether the
\* call raised, and the key evicted (None when none was).
memory_put(mem, cap, key, value) ==
    IF HasKey(mem, key)
    THEN [memory |-> MoveToEnd(mem, key), raised |-> FALSE, evicted |-> None]
    ELSE IF Len(mem) >= cap
         THEN IF mem = <<>>
              THEN [memory |-> mem, raised |-> TRUE, evicted |-> None]
              ELSE [memory |-> Append(PopOldest(mem), [key |-> key, value |-> value]),
                    raised |-> FALSE, evicted |-> Head(mem).key]
         ELSE [memory |-> Append(mem, [key |-> key, value |-> value]),
               raised |-> FALSE, evicted |-> None]

\* disk_path.exists() for cache_dir/images/<key>.png
ImageFileExists(key) == dirs /\ images[key] # NoFile

\* History only: key becomes the most recently touched one.
Touch(order, key) ==
    SelectSeq(order, LAMBDA k : k # key) \o <<key>>

\* The record of the last call: its arguments, what it returned (ret) or raised
\* (exc), what it did to the tiers, in order (io), the key it evicted, and what
\* the environment has done to the files since it returned (since).
Call(op, url, bytes, ret, exc, io, evicted) ==
    [op |-> op, url |-> url, bytes |-> bytes, ret |-> ret, exc |-> exc,
     io |-> io, evicted |-> evicted, since |-> "nothing"]

(***************************************************************************)
(* TemplateCache: the image tier.                                          *)
(***************************************************************************)

\* Mutant of get_image_result: a disk hit is returned but not promoted.
get_image_no_promotion(url) ==
    LET key == image_key(url)
    IN  IF HasKey(memory, key)
        THEN [memory |-> MoveToEnd(memory, key), ret |-> ValueOf(memory, key),
              exc |-> None, io |-> <<"memory_hit">>, evicted |-> None]
        ELSE IF ImageFileExists(key) /\ Decode(images[key]) # "raise"
             THEN [memory |-> memory, ret |-> Decode(images[key]), exc |-> None,
                   io |-> <<"disk_read">>, evicted |-> None]
             ELSE [memory |-> memory, ret |-> None, exc |-> None, io |-> <<>>,
                   evicted |-> None]

\* Mutant of get_image_result: the decode of the disk file is outside the try.
get_image_decode_raises(url) ==
    LET key == image_key(url)
    IN  IF HasKey(memory, key)
        THEN [memory |-> MoveToEnd(memory, key), ret |-> ValueOf(memory, key),
              exc |-> None, io |-> <<"memory_hit">>, evicted |-> None]
        ELSE IF ImageFileExists(key)
             THEN LET img == Decode(images[key])
                      put == memory_put(memory, max_memory, key, img)
                  IN  IF img = "raise"
                      THEN [memory |-> memory, ret |-> None, exc |-> "UnidentifiedImageError",
                            io |-> <<"disk_read", "decode_failed">>, evicted |-> None]
                      ELSE IF put.raised
                           THEN [memory |-> memory, ret |-> None, exc |-> None,
                                 io |-> <<"disk_read", "put_raised">>, evicted |-> None]
                           ELSE [memory |-> put.memory, ret |-> img, exc |-> None,
                                 io |-> <<"disk_read", "memory_put">>,
                                 evicted |-> put.evicted]
             ELSE [memory |-> memory, ret |-> None, exc |-> None, io |-> <<>>,
                   evicted |-> None]

\* Mutant of get_image_result: only the memory tier is looked up.
get_image_memory_only(url) ==
    LET key == image_key(url)
    IN  IF HasKey(memory, key)
        THEN [memory |-> MoveToEnd(memory, key), ret |-> ValueOf(memory, key),
              exc |-> None, io |-> <<"memory_hit">>, evicted |-> None]
        ELSE [memory |-> memory, ret |-> None, exc |-> None, io |-> <<>>,
              evicted |-> None]

\* The result of TemplateCache.get_image(url) in the current state.
get_image_result(url) ==
    LET key == image_key(url)
    IN  IF HasKey(memory, key)
        THEN [memory |-> MoveToEnd(memory, key), ret |-> ValueOf(memory, key),
              exc |-> None, io |-> <<"memory_hit">>, evicted |-> None]
        ELSE IF ImageFileExists(key)
             THEN LET img == Decode(images[key])
                      put == memory_put(memory, max_memory, key, img)
                  IN  IF img = "raise"
                      THEN [memory |-> memory, ret |-> None, exc |-> None,
                            io |-> <<"disk_read", "decode_failed">>, evicted |-> None]
                      ELSE IF put.raised
                           THEN [memory |-> memory, ret |-> None, exc |-> None,
                                 io |-> <<"disk_read", "put_raised">>, evicted |-> None]
                           ELSE [memory |-> put.memory, ret |-> img, exc |-> None,
                                 io |-> <<"disk_read", "memory_put">>,
                                 evicted |-> put.evicted]
             ELSE [memory |-> memory, ret |-> None, exc |-> None, io |-> <<>>,
                   evicted |-> None]

\* TemplateCache.get_image(url)
get_image(url) ==
    LET r == get_image_result(url)
    IN  /\ memory' = r.memory
        /\ last' = Call("get_image", url, None, r.ret, r.exc, r.io, r.evicted)
        /\ recency' = IF r.ret # None THEN Touch(recency, image_key(url)) ELSE recency
        /\ UNCHANGED <<max_memory, dirs, images, catalog, now>>
        /\ UNCHANGED <<resolver_vars, render_vars, api_vars>>

\* The in-memory tier after TemplateCache.set_image(url, image_bytes): the file
\* is written first, then read back and decoded; any exception is swallowed.
set_image_result(url, image_bytes) ==
    LET key == image_key(url)
        img == Decode(image_bytes)
        put == memory_put(memory, max_memory, key, img)
    IN  IF img = "raise"
        THEN [memory |-> memory, exc |-> None,
              io |-> <<"disk_write", "decode_failed">>, evicted |-> None]
        ELSE IF put.raised
             THEN [memory |-> memory, exc |-> None,
                   io |-> <<"disk_write", "put_raised">>, evicted |-> None]
             ELSE [memory |-> put.memory, exc |-> None,
                   io |-> <<"disk_write", "memory_put">>, evicted |-> put.evicted]

\* TemplateCache.set_image(url, image_bytes)
set_image(url, image_bytes) ==
    LET key == image_key(url)
        r == set_image_result(url, image_bytes)
    IN  /\ dirs' = TRUE
        /\ images' = [images EXCEPT ![key] = image_bytes]
        /\ memory' = r.memory
        /\ last' = Call("set_image", url, image_bytes, None, r.exc, r.io, r.evicted)
        /\ recency' = IF image_bytes \in Decodable /\ HasKey(r.memory, key)
                      THEN Touch(recency, key) ELSE recency
        /\ UNCHANGED <<max_memory, catalog, now>>
        /\ UNCHANGED <<resolver_vars, render_vars, api_vars>>

(***************************************************************************)
(* TemplateCache: the catalog.                                             *)
(*                                                                         *)
(* The text of catalog.json is modelled by what json.loads makes of it:    *)
(* fmt = "text" is text that is not JSON; fmt = "json" carries the parsed  *)
(* value, which is an object (is = "object") or any other JSON value       *)
(* (is = "other": an array, a number, a string, null). An object has a     *)
(* "timestamp" that is missing, a number or not a number (ts_kind), and a  *)
(* "templates" that is a template list or "missing".                       *)
(***************************************************************************)

JsonObject(ts_kind, timestamp, templates) ==
    [is |-> "object", ts_kind |-> ts_kind, timestamp |-> timestamp,
     templates |-> templates]

JsonOther == [is |-> "other"]

\* json.dumps(data): the text of a JSON value.
Dumps(data) == [fmt |-> "json", data |-> data]

\* json.loads(text) for text that parses.
Loads(text) == text.data

\* The contents catalog.json can have.
CatalogTexts ==
    {[fmt |-> "text"], Dumps(JsonOther)}
    \cup {Dumps(JsonObject("missing", 0, t)) : t \in Catalogs \cup {"missing"}}
    \cup {Dumps(JsonObject("string", 0, t)) : t \in Catalogs \cup {"missing"}}
    \cup {Dumps(JsonObject("number", n, t)) :
              n \in ClockPoints, t \in Catalogs \cup {"missing"}}

\* No catalog.json.
NoCatalog == [fmt |-> "nofile"]

\* catalog_path.exists()
CatalogFileExists == dirs /\ catalog.fmt # "nofile"

\* The record of a catalog call.
CatalogCall(op, ttl, templates, ret, exc, io) ==
    [ttl |-> ttl, templates |-> templates]
        @@ Call(op, None, None, ret, exc, io, None)

\* Mutant of get_catalog_result: the expiry test is >= where the code has >.
get_catalog_expires_at_ttl(ttl) ==
    IF ~CatalogFileExists
    THEN [ret |-> None, exc |-> None, io |-> <<>>]
    ELSE IF catalog.fmt # "json"
         THEN [ret |-> None, exc |-> None, io |-> <<"catalog_read">>]
         ELSE LET data == Loads(catalog)
              IN  IF data.is # "object"
                  THEN [ret |-> None, exc |-> "AttributeError", io |-> <<"catalog_read">>]
                  ELSE IF data.ts_kind = "string"
                       THEN [ret |-> None, exc |-> "TypeError", io |-> <<"catalog_read">>]
                       ELSE IF now - data.timestamp >= ttl
                            THEN [ret |-> None, exc |-> None, io |-> <<"catalog_read">>]
                            ELSE [ret |-> IF data.templates = "missing"
                                          THEN None ELSE data.templates,
                                  exc |-> None, io |-> <<"catalog_read">>]

\* Mutant of get_catalog_result: the age is never compared with the ttl.
get_catalog_never_expires(ttl) ==
    IF ~CatalogFileExists
    THEN [ret |-> None, exc |-> None, io |-> <<>>]
    ELSE IF catalog.fmt # "json"
         THEN [ret |-> None, exc |-> None, io |-> <<"catalog_read">>]
         ELSE LET data == Loads(catalog)
              IN  IF data.is # "object"
                  THEN [ret |-> None, exc |-> "AttributeError", io |-> <<"catalog_read">>]
                  ELSE IF data.ts_kind = "string"
                       THEN [ret |-> None, exc |-> "TypeError", io |-> <<"catalog_read">>]
                       ELSE [ret |-> IF data.templates = "missing"
                                     THEN None ELSE data.templates,
                             exc |-> None, io |-> <<"catalog_read">>]

\* The result of TemplateCache.get_catalog(ttl) in the current state. Only
\* json.JSONDecodeError and KeyError are caught: data.get on a value that is
\* no dict raises AttributeError, and a float minus a timestamp that is no
\* number raises TypeError. data.get("timestamp", 0) of an object without a
\* timestamp is 0 (JsonObject carries 0 there).
get_catalog_result(ttl) ==
    IF ~CatalogFileExists
    THEN [ret |-> None, exc |-> None, io |-> <<>>]
    ELSE IF catalog.fmt # "json"
         THEN [ret |-> None, exc |-> None, io |-> <<"catalog_read">>]
         ELSE LET data == Loads(catalog)
              IN  IF data.is # "object"
                  THEN [ret |-> None, exc |-> "AttributeError", io |-> <<"catalog_read">>]
                  ELSE IF data.ts_kind = "string"
                       THEN [ret |-> None, exc |-> "TypeError", io |-> <<"catalog_read">>]
                       ELSE IF now - data.timestamp > ttl
                            THEN [ret |-> None, exc |-> None, io |-> <<"catalog_read">>]
                            ELSE [ret |-> IF data.templates = "missing"
                                          THEN None ELSE data.templates,
                                  exc |-> None, io |-> <<"catalog_read">>]

\* TemplateCache.get_catalog(ttl)
get_catalog(ttl) ==
    LET r == get_catalog_result(ttl)
    IN  /\ last' = CatalogCall("get_catalog", ttl, None, r.ret, r.exc, r.io)
        /\ UNCHANGED <<max_memory, memory, dirs, images, catalog, now, recency>>
        /\ UNCHANGED <<resolver_vars, render_vars, api_vars>>

\* The text TemplateCache.set_catalog(templates) writes.
set_catalog_text(templates) == Dumps(JsonObject("number", now, templates))

\* TemplateCache.set_catalog(templates)
set_catalog(templates) ==
    /\ dirs' = TRUE
    /\ catalog' = set_catalog_text(templates)
    /\ last' = CatalogCall("set_catalog", 0, templates, None, None, <<"catalog_write">>)
    /\ UNCHANGED <<max_memory, memory, images, now, recency>>
    /\ UNCHANGED <<resolver_vars, render_vars, api_vars>>

\* The environment writes catalog.json (the tests rewrite its timestamp and
\* write text that is not JSON).
WriteCatalogFile(text) ==
    /\ text # catalog
    /\ dirs' = TRUE
    /\ catalog' = text
    /\ last' = [last EXCEPT !.since = "corrupted"]
    /\ UNCHANGED <<max_memory, memory, images, now, recency>>
    /\ UNCHANGED <<resolver_vars, render_vars, api_vars>>

\* Time passes.
Tick(t) ==
    /\ t > now
    /\ now' = t
    /\ UNCHANGED <<max_memory, memory, dirs, images, catalog, last, recency>>
    /\ UNCHANGED <<resolver_vars, render_vars, api_vars>>

\* Mutant of clear: the memory tier is emptied, the directory tree stays.
clear_memory_only ==
    /\ memory' = <<>>
    /\ last' = [dropped |-> Len(memory)]
                    @@ Call("clear", None, None, None, None, <<>>, None)
    /\ recency' = <<>>
    /\ UNCHANGED <<max_memory, dirs, images, catalog, now>>
    /\ UNCHANGED <<resolver_vars, render_vars, api_vars>>

\* TemplateCache.clear(); the record keeps the number of entries the memory
\* tier had.
clear ==
    /\ memory' = <<>>
    /\ dirs' = FALSE
    /\ images' = [k \in Keys |-> NoFile]
    /\ catalog' = NoCatalog
    /\ last' = [dropped |-> Len(memory)]
                    @@ Call("clear", None, None, None, None,
                            IF dirs THEN <<"rmtree">> ELSE <<>>, None)
    /\ recency' = <<>>
    /\ UNCHANGED <<max_memory, now>>
    /\ UNCHANGED <<resolver_vars, render_vars, api_vars>>

\* A new TemplateCache over the same cache directory (a later process run):
\* the in-memory tier starts empty, the files stay.
Restart ==
    /\ memory # <<>>
    /\ memory' = <<>>
    /\ recency' = <<>>
    /\ last' = Call("init", None, None, None, None, <<>>, None)
    /\ UNCHANGED <<max_memory, dirs, images, catalog, now>>
    /\ UNCHANGED <<resolver_vars, render_vars, api_vars>>

\* The environment removes an image file (disk_path.unlink() in the tests).
UnlinkImageFile(key) ==
    /\ ImageFileExists(key)
    /\ images' = [images EXCEPT ![key] = NoFile]
    /\ last' = [last EXCEPT !.since = IF @ = "corrupted" THEN @ ELSE "unlinked"]
    /\ UNCHANGED <<max_memory, memory, dirs, catalog, now, recency>>
    /\ UNCHANGED <<resolver_vars, render_vars, api_vars>>

\* The environment damages an image file: it no longer decodes.
CorruptImageFile(key) ==
    /\ ImageFileExists(key)
    /\ images[key] \in Decodable
    /\ images' = [images EXCEPT ![key] = "junk"]
    /\ last' = [last EXCEPT !.since = "corrupted"]
    /\ UNCHANGED <<max_memory, memory, dirs, catalog, now, recency>>
    /\ UNCHANGED <<resolver_vars, render_vars, api_vars>>

(***************************************************************************)
(* Strings. A Python str is a TLA+ string; Chars gives its characters, so  *)
(* that `in', startswith and pathlib's name, suffix and stem are computed  *)
(* as the code computes them, and Text is the str of a character sequence. *)
(***************************************************************************)

\* The template references of the model: memegen ids, local paths (with a
\* separator, with an image extension in either case, with another extension,
\* with nothing but an extension) and URLs.
Refs ==
    {"buzz", "nope", "a/buzz", "a\\buzz", "buzz.png", "buzz.PNG", "buzz.txt",
     ".png", "http://e/buzz", "https://e/b.png"}

Strings == Refs \cup {"b", "a", "/cwd/buzz.png"}

Chars(str) ==
    CASE str = "buzz" -> <<"b", "u", "z", "z">>
      [] str = "nope" -> <<"n", "o", "p", "e">>
      [] str = "a/buzz" -> <<"a", "/", "b", "u", "z", "z">>
      [] str = "a\\buzz" -> <<"a", "\\", "b", "u", "z", "z">>
      [] str = "buzz.png" -> <<"b", "u", "z", "z", ".", "p", "n", "g">>
      [] str = "buzz.PNG" -> <<"b", "u", "z", "z", ".", "P", "N", "G">>
      [] str = "buzz.txt" -> <<"b", "u", "z", "z", ".", "t", "x", "t">>
      [] str = ".png" -> <<".", "p", "n", "g">>
      [] str = "http://e/buzz" ->
             <<"h", "t", "t", "p", ":", "/", "/", "e", "/", "b", "u", "z", "z">>
      [] str = "https://e/b.png" ->
             <<"h", "t", "t", "p", "s", ":", "/", "/", "e", "/", "b", ".", "p", "n", "g">>
      [] str = "/cwd/buzz.png" ->
             <<"/", "c", "w", "d", "/", "b", "u", "z", "z", ".", "p", "n", "g">>
      [] str = "b" -> <<"b">>
      [] str = "a" -> <<"a">>

Text(chars) == CHOOSE str \in Strings : Chars(str) = chars

\* c in s, for a character c
Contains(chars, c) == \E i \in 1..Len(chars) : chars[i] = c

\* s.startswith(prefix)
StartsWith(chars, prefix) ==
    /\ Len(chars) >= Len(prefix)
    /\ SubSeq(chars, 1, Len(prefix)) = prefix

\* s.startswith(("http://", "https://"))
IsUrl(chars) ==
    \/ StartsWith(chars, <<"h", "t", "t", "p", ":", "/", "/">>)
    \/ StartsWith(chars, <<"h", "t", "t", "p", "s", ":", "/", "/">>)

\* s.rfind(c): the last position of c (1-based), 0 when there is none.
RFind(chars, c) ==
    IF Contains(chars, c)
    THEN CHOOSE i \in 1..Len(chars) :
             chars[i] = c /\ \A j \in (i + 1)..Len(chars) : chars[j] # c
    ELSE 0

\* PurePosixPath(s).name for a reference that does not end in a separator: what
\* follows the last "/" (a backslash is no separator of a POSIX path).
PathName(chars) == SubSeq(chars, RFind(chars, "/") + 1, Len(chars))

\* PurePath.suffix: the name from its last dot on, unless that dot is the
\* name's first or last character.
Suffix(chars) ==
    LET name == PathName(chars)
        i == RFind(name, ".")
    IN  IF 1 < i /\ i < Len(name) THEN SubSeq(name, i, Len(name)) ELSE <<>>

\* PurePath.stem: the name without its suffix.
Stem(chars) ==
    LET name == PathName(chars)
        i == RFind(name, ".")
    IN  IF 1 < i /\ i < Len(name) THEN SubSeq(name, 1, i - 1) ELSE name

\* str.lower(), on the characters of the model.
LowerChar(c) ==
    CASE c = "P" -> "p"
      [] c = "N" -> "n"
      [] c = "G" -> "g"
      [] OTHER -> c

Lower(chars) == [i \in 1..Len(chars) |-> LowerChar(chars[i])]

\* _config.IMAGE_EXTENSIONS
IMAGE_EXTENSIONS ==
    {<<".", "p", "n", "g">>, <<".", "j", "p", "g">>, <<".", "j", "p", "e", "g">>,
     <<".", "g", "i", "f">>, <<".", "b", "m", "p">>, <<".", "t", "i", "f", "f">>,
     <<".", "w", "e", "b", "p">>}

(***************************************************************************)
(* Templates.                                                              *)
(***************************************************************************)

\* A float is written <<p, q>>: p/q for the literals of the source (0.0, 0.2,
\* 0.8, 1.0), and the product p * (1.0 / q) for a computed anchor or height.
TextPosition(anchor_y, scale_y) ==
    [anchor_x |-> <<0, 1>>, anchor_y |-> anchor_y,
     scale_x |-> <<1, 1>>, scale_y |-> scale_y]

DEFAULT_TEXT_POSITIONS ==
    <<TextPosition(<<0, 1>>, <<1, 5>>), TextPosition(<<4, 5>>, <<1, 5>>)>>

\* Mutant of EvenPositions: the bands are counted from one.
EvenPositionsFromOne(lines) ==
    [i \in 1..lines |-> TextPosition(<<i, lines>>, <<1, lines>>)]

\* The bands of a template of more than two lines.
EvenPositions(lines) ==
    [i \in 1..lines |-> TextPosition(<<i - 1, lines>>, <<1, lines>>)]

\* A catalog entry: the dict of one template. "lines" is missing, an int, or
\* something int() rejects ("bad"); "blank" is a url or "missing".
CatalogEntry(id, lines_kind, lines, blank) ==
    [id |-> id, lines_kind |-> lines_kind, lines |-> lines, blank |-> blank]

\* The entries of a template list.
CatalogEntries(c) ==
    CASE c = "cat_empty" -> <<>>
      [] c = "cat_buzz" -> <<CatalogEntry("buzz", "int", 2, "missing")>>
      [] c = "cat_paths" ->
             <<CatalogEntry("buzz", "int", 2, "missing"),
               CatalogEntry("a/buzz", "int", 3, "missing"),
               CatalogEntry("buzz.png", "missing", 0, "missing"),
               CatalogEntry("https://e/b.png", "bad", 0, "https://e/b.png"),
               CatalogEntry("buzz", "int", 3, "https://e/b.png")>>
      [] c = "cat_blank" -> <<CatalogEntry("buzz", "int", 2, "https://e/b.png")>>

\* What the environment can have on the local filesystem.
LocalFiles == {"a/buzz", "buzz.png"}

\* str(Path(p).expanduser().resolve()) with the working directory /cwd.
AbsPath(path) ==
    CASE path = "a/buzz" -> "/cwd/a/buzz"
      [] path = "buzz.png" -> "/cwd/buzz.png"
      [] OTHER -> path

\* f"{api_base}/images/{template_id}.png"
DefaultBlank(id) ==
    CASE id = "buzz" -> "https://api.memegen.link/images/buzz.png"
      [] id = "nope" -> "https://api.memegen.link/images/nope.png"
      [] id = "a/buzz" -> "https://api.memegen.link/images/a/buzz.png"
      [] id = "buzz.png" -> "https://api.memegen.link/images/buzz.png.png"
      [] id = "buzz.txt" -> "https://api.memegen.link/images/buzz.txt.png"
      [] id = ".png" -> "https://api.memegen.link/images/.png.png"
      [] OTHER -> "https://api.memegen.link/images/"

\* Template(...)
Template(id, image_url, text_positions) ==
    [id |-> id, image_url |-> image_url, text_positions |-> text_positions]

\* What a call that raises returns in place of a Template.
NoTemplate == Template(None, None, <<>>)

\* Template.from_image(path_or_url, lines), for lines >= 1
from_image(path_or_url, lines) ==
    Template(Text(Stem(Chars(path_or_url))),
             IF IsUrl(Chars(path_or_url)) THEN path_or_url ELSE AbsPath(path_or_url),
             IF lines <= 2
             THEN SubSeq(DEFAULT_TEXT_POSITIONS, 1, lines)
             ELSE EvenPositions(lines))

\* max(1, int(data.get("lines", 2))), 2 when int() raises
LinesCount(data) ==
    CASE data.lines_kind = "missing" -> 2
      [] data.lines_kind = "bad" -> 2
      [] OTHER -> IF data.lines < 1 THEN 1 ELSE data.lines

\* Template._from_api_data(data, api_base)
from_api_data(data) ==
    Template(data.id,
             IF data.blank = "missing" THEN DefaultBlank(data.id) ELSE data.blank,
             IF LinesCount(data) <= 2
             THEN DEFAULT_TEXT_POSITIONS
             ELSE EvenPositions(LinesCount(data)))

(***************************************************************************)
(* TemplateRegistry and _resolve_template.                                 *)
(*                                                                         *)
(* A request's answer is an input of the call: the listing request is      *)
(* answered with a template list or fails ("error"), the single-item       *)
(* request is answered with the item ("ok"), with status 404 or fails.     *)
(* A result carries what the call returned or raised, its requests and     *)
(* cache accesses in order (io), and the registry slot, the catalog file   *)
(* and the cache directory as the call leaves them.                        *)
(***************************************************************************)

ListResponses == Catalogs \cup {"error"}
ItemResponses == {"ok", "404", "error"}

Outcome(ret, exc, io, slot, text, d) ==
    [ret |-> ret, exc |-> exc, io |-> io, slot |-> slot, text |-> text, dirs |-> d]

\* fetched_at while the slot is unset.
Never == Epoch - 1

\* When the list a call leaves in the slot came from the listing request: a
\* list read from catalog.json came from it at the file's timestamp.
FetchTime(r) ==
    IF r.slot = None THEN Never
    ELSE IF reg_catalog # None THEN fetched_at
    ELSE IF Contains(r.io, "list_request") THEN now
    ELSE Loads(catalog).timestamp

\* _fetch_catalog without its in-process slot: every call goes to the disk
\* catalog, and to the API when the disk has nothing fresh.
fetch_catalog_no_slot(lresp) ==
    LET cached == IF cache_enabled
                  THEN get_catalog_result(DEFAULT_TTL)
                  ELSE [ret |-> None, exc |-> None, io |-> <<>>]
    IN  IF cached.exc # None
        THEN Outcome(None, cached.exc, cached.io, None, catalog, dirs)
        ELSE IF cached.ret # None
             THEN Outcome(cached.ret, None, cached.io, cached.ret, catalog, dirs)
             ELSE IF lresp = "error"
                  THEN Outcome(None, "HTTPError",
                               cached.io \o <<"list_request">>,
                               None, catalog, dirs)
                  ELSE IF cache_enabled
                       THEN Outcome(lresp, None,
                                    cached.io \o <<"list_request", "catalog_write">>,
                                    lresp, set_catalog_text(lresp), TRUE)
                       ELSE Outcome(lresp, None,
                                    cached.io \o <<"list_request">>,
                                    lresp, catalog, dirs)

\* TemplateRegistry._fetch_catalog(); ret is the template list.
fetch_catalog(lresp) ==
    IF reg_catalog # None
    THEN Outcome(reg_catalog, None, <<>>, reg_catalog, catalog, dirs)
    ELSE LET cached == IF cache_enabled
                       THEN get_catalog_result(DEFAULT_TTL)
                       ELSE [ret |-> None, exc |-> None, io |-> <<>>]
         IN  IF cached.exc # None
             THEN Outcome(None, cached.exc, cached.io, None, catalog, dirs)
             ELSE IF cached.ret # None
                  THEN Outcome(cached.ret, None, cached.io, cached.ret, catalog, dirs)
                  ELSE IF lresp = "error"
                       THEN Outcome(None, "HTTPError",
                                    cached.io \o <<"list_request">>,
                                    None, catalog, dirs)
                       ELSE IF cache_enabled
                            THEN Outcome(lresp, None,
                                         cached.io \o <<"list_request", "catalog_write">>,
                                         lresp, set_catalog_text(lresp), TRUE)
                            ELSE Outcome(lresp, None,
                                         cached.io \o <<"list_request">>,
                                         lresp, catalog, dirs)

\* Mutant of FirstWithId: the last entry with the given id.
LastWithId(entries, id) ==
    IF \E i \in 1..Len(entries) : entries[i].id = id
    THEN CHOOSE i \in 1..Len(entries) :
             entries[i].id = id /\ \A j \in (i + 1)..Len(entries) : entries[j].id # id
    ELSE 0

\* The first entry of a template list with the given id (0: none).
FirstWithId(entries, id) ==
    IF \E i \in 1..Len(entries) : entries[i].id = id
    THEN CHOOSE i \in 1..Len(entries) :
             entries[i].id = id /\ \A j \in 1..(i - 1) : entries[j].id # id
    ELSE 0

\* Mutant of from_memegen: status 404 is raised as any other HTTP error.
from_memegen_raise_for_status_only(template_id, iresp) ==
    CASE iresp = "ok" -> [ret |-> from_api_data(CatalogEntry(template_id, "int", 2, "missing")),
                          exc |-> None]
      [] OTHER -> [ret |-> NoTemplate, exc |-> "HTTPError"]

\* Template.from_memegen(template_id): ret is the Template.
from_memegen(template_id, iresp) ==
    CASE iresp = "404" -> [ret |-> NoTemplate, exc |-> "TemplateNotFoundError"]
      [] iresp = "error" -> [ret |-> NoTemplate, exc |-> "HTTPError"]
      [] OTHER -> [ret |-> from_api_data(CatalogEntry(template_id, "int", 2, "missing")),
                   exc |-> None]

\* TemplateRegistry.get(template_id): ret is the Template.
registry_get(template_id, lresp, iresp) ==
    LET f == fetch_catalog(lresp)
    IN  IF f.exc # None
        THEN Outcome(NoTemplate, f.exc, f.io, f.slot, f.text, f.dirs)
        ELSE LET entries == CatalogEntries(f.ret)
                 i == FirstWithId(entries, template_id)
                 m == from_memegen(template_id, iresp)
             IN  IF i # 0
                 THEN Outcome(from_api_data(entries[i]), None, f.io,
                              f.slot, f.text, f.dirs)
                 ELSE Outcome(m.ret, m.exc, f.io \o <<"item_request">>,
                              f.slot, f.text, f.dirs)

\* "/" in template or "\\" in template
HasSeparator(template) ==
    Contains(Chars(template), "/") \/ Contains(Chars(template), "\\")

\* Path(template).suffix.lower() in IMAGE_EXTENSIONS
HasImageSuffix(template) == Lower(Suffix(Chars(template))) \in IMAGE_EXTENSIONS

\* The test of _resolve_template's first branch, computed once for every
\* string of the model.
PathTest == [str \in Strings |-> HasSeparator(str) \/ HasImageSuffix(str)]

LooksLikePath(template) == PathTest[template]

\* Mutant of resolve_result: a path that does not exist falls through to the
\* registry.
resolve_falls_through(template, lresp, iresp) ==
    IF LooksLikePath(template) /\ template \in fs
    THEN Outcome(from_image(template, 2), None, <<>>, reg_catalog, catalog, dirs)
    ELSE registry_get(template, lresp, iresp)

\* _resolve_template(template), with the registry of the model.
resolve_result(template, lresp, iresp) ==
    IF LooksLikePath(template)
    THEN IF template \in fs
         THEN Outcome(from_image(template, 2), None, <<>>, reg_catalog, catalog, dirs)
         ELSE Outcome(NoTemplate, "FileNotFoundError", <<>>, reg_catalog, catalog, dirs)
    ELSE IF IsUrl(Chars(template))
         THEN Outcome(from_image(template, 2), None, <<>>, reg_catalog, catalog, dirs)
         ELSE registry_get(template, lresp, iresp)

\* The answers the listing request of a call can get: a request that is not
\* made gets none (the placeholder "error" is not read).
ListAnswers(template) ==
    IF Contains(resolve_result(template, "error", "error").io, "list_request")
    THEN ListResponses ELSE {"error"}

\* The answers the single-item request of a call can get.
ItemAnswers(template, lresp) ==
    IF Contains(resolve_result(template, lresp, "error").io, "item_request")
    THEN ItemResponses ELSE {"error"}

\* _resolve_template(template)
resolve(template) ==
    \E lresp \in ListAnswers(template) :
      \E iresp \in ItemAnswers(template, lresp) :
        LET r == resolve_result(template, lresp, iresp)
        IN  /\ reg_catalog' = r.slot
            /\ catalog' = r.text
            /\ dirs' = r.dirs
            /\ last' = [ref |-> template,
                        item |-> IF Contains(r.io, "item_request") THEN iresp ELSE None]
                           @@ Call("resolve", None, None, r.ret, r.exc, r.io, None)
            /\ fetched_at' = FetchTime(r)
            /\ UNCHANGED <<max_memory, memory, images, now, recency, fs,
                           cache_enabled, render_vars,
                           wrapped, coded, meme_lines, texts,
                   template_str, meme_fig, threads>>

\* A new TemplateRegistry (a later process run): the slot is unset.
NewRegistry ==
    /\ reg_catalog # None
    /\ reg_catalog' = None
    /\ fetched_at' = Never
    /\ last' = Call("init", None, None, None, None, <<>>, None)
    /\ UNCHANGED <<cache_vars, fs, cache_enabled, render_vars,
                   wrapped, coded, meme_lines, texts,
                   template_str, meme_fig, threads>>

\* The caller sets config.cache_enabled.
SetCacheEnabled(b) ==
    /\ cache_enabled # b
    /\ cache_enabled' = b
    /\ UNCHANGED <<cache_vars, last, fs, reg_catalog, render_vars, api_vars>>

\* The environment creates or removes a local file.
CreateLocalFile(path) ==
    /\ path \notin fs
    /\ fs' = fs \cup {path}
    /\ UNCHANGED <<cache_vars, last, cache_enabled, reg_catalog, render_vars, api_vars>>

RemoveLocalFile(path) ==
    /\ path \in fs
    /\ fs' = fs \ {path}
    /\ UNCHANGED <<cache_vars, last, cache_enabled, reg_catalog, render_vars, api_vars>>

(***************************************************************************)
(* Building a Template. One Template is observed: it is built once, by     *)
(* from_image or from a catalog entry, and its image slot starts unset.    *)
(***************************************************************************)

\* The largest line count of the model.
MaxLines == 5

\* The lines arguments of from_image: a count that is rejected, and 1..MaxLines.
LineCounts == 0..MaxLines

\* The ids of the catalog entries a Template is built from.
ApiIds == {"buzz", "nope", "buzz.txt"}

\* The catalog entries a Template is built from: "lines" is an int (also one
\* below 1), missing, or not a number; "blank" is given or missing.
ApiEntries ==
    {CatalogEntry(id, "int", n, blank) :
        id \in ApiIds, n \in -1..MaxLines, blank \in {"https://e/b.png", "missing"}}
    \cup {CatalogEntry(id, k, 0, blank) :
             id \in ApiIds, k \in {"missing", "bad"},
             blank \in {"https://e/b.png", "missing"}}

\* The record of a call that builds a Template.
BuildCall(op, source, lines_kind, lines, exc) ==
    [lines_kind |-> lines_kind, lines |-> lines]
        @@ Call(op, source, None, None, exc, <<>>, None)

\* t = Template.from_image(path_or_url, lines=lines)
new_from_image(path_or_url, lines) ==
    /\ tpl = NoTemplate
    /\ IF lines < 1
       THEN /\ tpl' = tpl
            /\ last' = BuildCall("from_image", path_or_url, "int", lines, "ValueError")
       ELSE /\ tpl' = from_image(path_or_url, lines)
            /\ last' = BuildCall("from_image", path_or_url, "int", lines, None)
    /\ image_array' = None
    /\ UNCHANGED <<cache_vars, resolver_vars, fit, api_vars>>

\* t = Template._from_api_data(data, api_base)
new_from_api_data(data) ==
    /\ tpl = NoTemplate
    /\ tpl' = from_api_data(data)
    /\ last' = BuildCall("from_api_data", data.id, data.lines_kind, data.lines, None)
    /\ image_array' = None
    /\ UNCHANGED <<cache_vars, resolver_vars, fit, api_vars>>

\* The Template is dropped; another one can be built.
DropTemplate ==
    /\ tpl # NoTemplate
    /\ tpl' = NoTemplate
    /\ image_array' = None
    /\ last' = Call("init", None, None, None, None, <<>>, None)
    /\ UNCHANGED <<cache_vars, resolver_vars, fit, api_vars>>

(***************************************************************************)
(* Template.get_image(cache). What the remote source answers, or what the  *)
(* local file holds when it is read, is an input of the call; a result     *)
(* carries what the call returned or raised, its accesses in order (io:    *)
(* "cache_get" and "cache_set" are followed by what the cache did), the    *)
(* image slot and the cache as the call leaves them.                       *)
(***************************************************************************)

\* The references of the Templates whose image is acquired.
AcquireSources == {"https://e/b.png", "buzz.png"}

\* The local path whose absolute form is the image_url.
LocalRef(url) == CHOOSE p \in LocalFiles : AbsPath(p) = url

\* requests.get(image_url): the content, or a failure.
RemoteAnswers == Bytes \cup {"error"}

Acquired(ret, exc, io, slot, mem, files, d, evicted) ==
    [ret |-> ret, exc |-> exc, io |-> io, slot |-> slot, memory |-> mem,
     images |-> files, dirs |-> d, evicted |-> evicted]

\* Mutant of template_get_image_result: the cache is consulted before the
\* private slot.
template_get_image_cache_first(with_cache, answer) ==
    LET url == tpl.image_url
        c == get_image_result(url)
    IN  IF with_cache /\ c.ret # None
        THEN Acquired(c.ret, None, <<"cache_get">> \o c.io, c.ret, c.memory,
                      images, dirs, c.evicted)
        ELSE Acquired(image_array, None, <<>>, image_array, memory, images, dirs, None)

\* Mutant of template_get_image_result: a download is not written to the cache.
template_get_image_no_write_through(with_cache, answer) ==
    LET url == tpl.image_url
        c == get_image_result(url)
        looked == IF with_cache THEN <<"cache_get">> \o c.io ELSE <<>>
        img == Decode(answer)
        s == set_image_result(url, answer)
    IN  IF image_array # None
        THEN Acquired(image_array, None, <<>>, image_array, memory, images, dirs, None)
        ELSE IF with_cache /\ c.ret # None
        THEN Acquired(c.ret, None, looked, c.ret, c.memory, images, dirs, c.evicted)
        ELSE IF IsUrl(Chars(url))
        THEN IF answer = "error"
             THEN Acquired(None, "HTTPError", looked \o <<"remote_fetch">>,
                           None, memory, images, dirs, None)
             ELSE IF img = "raise"
             THEN Acquired(None, "UnidentifiedImageError", looked \o <<"remote_fetch">>,
                           None, memory, images, dirs, None)
             ELSE Acquired(img, None, looked \o <<"remote_fetch">>, img,
                           memory, images, dirs, None)
        ELSE IF LocalRef(url) \notin fs
             THEN Acquired(None, "FileNotFoundError", looked \o <<"local_open">>,
                           None, memory, images, dirs, None)
             ELSE IF img = "raise"
             THEN Acquired(None, "UnidentifiedImageError", looked \o <<"local_open", "local_read">>,
                           None, memory, images, dirs, None)
             ELSE Acquired(img, None, looked \o <<"local_open", "local_read">>, img,
                           memory, images, dirs, None)

\* Template.get_image(cache) of a Template with the given image_url and
\* image slot: with_cache is FALSE for cache=None.
get_image_of(url, slot, with_cache, answer) ==
    LET c == get_image_result(url)
        looked == IF with_cache THEN <<"cache_get">> \o c.io ELSE <<>>
        img == Decode(answer)
        s == set_image_result(url, answer)
    IN  IF slot # None
        THEN Acquired(slot, None, <<>>, slot, memory, images, dirs, None)
        ELSE IF with_cache /\ c.ret # None
        THEN Acquired(c.ret, None, looked, c.ret, c.memory, images, dirs, c.evicted)
        ELSE IF IsUrl(Chars(url))
        THEN IF answer = "error"
             THEN Acquired(None, "HTTPError", looked \o <<"remote_fetch">>,
                           None, memory, images, dirs, None)
             ELSE IF img = "raise"
             THEN Acquired(None, "UnidentifiedImageError", looked \o <<"remote_fetch">>,
                           None, memory, images, dirs, None)
             ELSE IF with_cache
             THEN Acquired(img, None,
                           looked \o <<"remote_fetch", "cache_set">> \o s.io, img,
                           s.memory, [images EXCEPT ![image_key(url)] = answer],
                           TRUE, s.evicted)
             ELSE Acquired(img, None, looked \o <<"remote_fetch">>, img,
                           memory, images, dirs, None)
        ELSE IF LocalRef(url) \notin fs
             THEN Acquired(None, "FileNotFoundError", looked \o <<"local_open">>,
                           None, memory, images, dirs, None)
             ELSE IF img = "raise"
             THEN Acquired(None, "UnidentifiedImageError", looked \o <<"local_open", "local_read">>,
                           None, memory, images, dirs, None)
             ELSE Acquired(img, None, looked \o <<"local_open", "local_read">>, img,
                           memory, images, dirs, None)

\* get_image that hands the downloaded bytes to the cache before it decodes
\* them: bytes that do not decode are on disk when the error is raised.
template_get_image_write_before_decode(with_cache, answer) ==
    LET r == get_image_of(tpl.image_url, image_array, with_cache, answer)
    IN  IF with_cache /\ r.exc = "UnidentifiedImageError"
                      /\ IsUrl(Chars(tpl.image_url))
        THEN [r EXCEPT !.io = r.io \o <<"cache_set", "disk_write">>,
                       !.images = [images EXCEPT ![image_key(tpl.image_url)] = answer],
                       !.dirs = TRUE]
        ELSE r

\* t.get_image(cache) of the Template under observation
template_get_image_result(with_cache, answer) ==
    get_image_of(tpl.image_url, image_array, with_cache, answer)

\* What the call can be answered: the remote source's answer when it is asked,
\* the content of the local file when it is read, nothing otherwise.
AcquireAnswers(with_cache) ==
    LET io == template_get_image_result(with_cache, "png_a").io
    IN  IF \E i \in 1..Len(io) : io[i] = "remote_fetch" THEN RemoteAnswers
        ELSE IF \E i \in 1..Len(io) : io[i] = "local_read" THEN Bytes
        ELSE {None}

\* t.get_image(cache)
template_get_image(with_cache) ==
    /\ tpl # NoTemplate
    /\ \E answer \in AcquireAnswers(with_cache) :
         LET r == template_get_image_result(with_cache, answer)
             key == image_key(tpl.image_url)
         IN  /\ image_array' = r.slot
             /\ memory' = r.memory
             /\ images' = r.images
             /\ dirs' = r.dirs
             /\ recency' = IF /\ HasKey(r.memory, key)
                              /\ \E i \in 1..Len(r.io) :
                                    r.io[i] \in {"memory_hit", "memory_put"}
                           THEN Touch(recency, key) ELSE recency
             /\ last' = [with_cache |-> with_cache]
                            @@ Call("template_get_image", tpl.image_url, answer,
                                    r.ret, r.exc, r.io, r.evicted)
    /\ UNCHANGED <<max_memory, catalog, now, resolver_vars, tpl, fit, api_vars>>

\* t._image_array = img: the caller supplies the image (the sample_template
\* fixture of the tests).
preload(img) ==
    /\ tpl # NoTemplate
    /\ image_array = None
    /\ image_array' = img
    /\ last' = Call("preload", tpl.image_url, None, None, None, <<>>, None)
    /\ UNCHANGED <<cache_vars, resolver_vars, tpl, fit, api_vars>>

(***************************************************************************)
(* _fit_text_to_box. A font size is an integer number of thousandths of a  *)
(* point, a width or height an integer number of thousandths of the axes;  *)
(* a product of floats is rounded down to that grid. The renderer's        *)
(* measurement (txt.get_window_extent, in axes fractions) is the callback: *)
(* either any function of the call's history ("any": each measurement is   *)
(* drawn from MeasuredWidths x MeasuredHeights) or a function linear in    *)
(* the font size ("linear": a and b thousandths per point).                *)
(***************************************************************************)

\* min_fontsize: float = 8.0
min_fontsize == 8000

\* for _ in range(20)
MaxMeasurements == 20

\* The font size of the Text when the call starts: below, at and above the
\* floor, the default base size, and a very large size of the caller.
StartSizes == {5000, 8000, 36000, 1000000}

\* (box_w, box_h): pos.scale_x, pos.scale_y
Boxes == {<<1000, 200>>, <<300, 200>>}

MeasuredWidths == {0, 900, 1200}
MeasuredHeights == {100, 250}

Callback(kind, a, b) == [kind |-> kind, a |-> a, b |-> b]

\* Linear callbacks: from a single short line to many long lines.
LinearCallbacks == {Callback("linear", a, b) : a \in {5, 30, 200}, b \in {3, 30}}

Callbacks == LinearCallbacks \cup {Callback("any", 0, 0)}

\* What a linear callback measures at a font size.
LinearMeasure(m, size) == <<(m.a * size) \div 1000, (m.b * size) \div 1000>>

\* The answers the callback can give to the next measurement.
Measurements(f) ==
    IF f.measure.kind = "linear"
    THEN {LinearMeasure(f.measure, f.size)}
    ELSE MeasuredWidths \X MeasuredHeights

\* No call of _fit_text_to_box yet.
NoFit ==
    [pc |-> "idle", why |-> "none", size |-> 0, start |-> 0, n |-> 0,
     box_w |-> 0, box_h |-> 0, measure |-> Callback("none", 0, 0),
     text_w |-> 0, text_h |-> 0, measured_at |-> 0]

Max(a, b) == IF a >= b THEN a ELSE b

\* text_w <= box_w * 1.1 and text_h <= box_h * 1.1
Fits(text_w, text_h, box_w, box_h) ==
    10 * text_w <= 11 * box_w /\ 10 * text_h <= 11 * box_h

\* Mutant of NewSize: the size is damped but not scaled.
NewSizeDampingOnly(current, text_w, text_h, box_w, box_h) ==
    Max(min_fontsize, (current * 95) \div 100)

\* Mutant of NewSize: the new size is not held at the floor.
NewSizeNoFloor(current, text_w, text_h, box_w, box_h) ==
    LET mw == Max(text_w, 10)
        mh == Max(text_h, 10)
        num == IF box_w * mh <= box_h * mw THEN box_w ELSE box_h
        den == IF box_w * mh <= box_h * mw THEN mw ELSE mh
    IN  (((current * num) \div den) * 95) \div 100

\* max(min_fontsize, current * scale * 0.95), with
\* scale = min(box_w / max(text_w, 0.01), box_h / max(text_h, 0.01))
NewSize(current, text_w, text_h, box_w, box_h) ==
    LET mw == Max(text_w, 10)
        mh == Max(text_h, 10)
        num == IF box_w * mh <= box_h * mw THEN box_w ELSE box_h
        den == IF box_w * mh <= box_h * mw THEN mw ELSE mh
    IN  Max(min_fontsize, ((((current * num) \div den) * 95) \div 100))

\* Mutant of LoopEnds: the loop has no iteration cap.
LoopNeverEnds(n) == FALSE

\* The for loop is exhausted after its n-th iteration.
LoopEnds(n) == n >= MaxMeasurements

\* Mutant of StopsAtFloor: the loop goes on at and below the floor.
NeverStopsAtFloor(current) == FALSE

\* if current <= min_fontsize: break
StopsAtFloor(current) == current <= min_fontsize

\* One iteration of the loop of _fit_text_to_box, the callback measuring
\* (text_w, text_h).
fit_step(f, text_w, text_h) ==
    LET g == [f EXCEPT !.n = @ + 1, !.text_w = text_w, !.text_h = text_h,
                       !.measured_at = f.size]
    IN  IF Fits(text_w, text_h, f.box_w, f.box_h)
        THEN [g EXCEPT !.pc = "done", !.why = "fits"]
        ELSE IF StopsAtFloor(f.size)
             THEN [g EXCEPT !.pc = "done", !.why = "floor"]
             ELSE [g EXCEPT !.size = NewSize(f.size, text_w, text_h, f.box_w, f.box_h),
                            !.pc = IF LoopEnds(f.n + 1) THEN "done" ELSE "loop",
                            !.why = IF LoopEnds(f.n + 1) THEN "exhausted" ELSE "none"]

\* _fit_text_to_box(ax, txt, box_w, box_h) is called: txt has font size start.
fit_text_to_box(start, box, m) ==
    /\ fit.pc # "loop"
    /\ fit' = [NoFit EXCEPT !.pc = "loop", !.size = start, !.start = start,
                            !.box_w = box[1], !.box_h = box[2], !.measure = m]
    /\ UNCHANGED <<cache_vars, last, resolver_vars, tpl, image_array, api_vars>>

\* The next iteration of the loop.
fit_iteration ==
    /\ fit.pc = "loop"
    /\ \E wh \in Measurements(fit) : fit' = fit_step(fit, wh[1], wh[2])
    /\ UNCHANGED <<cache_vars, last, resolver_vars, tpl, image_array, api_vars>>

(***************************************************************************)
(* Wrapping. A text is the sequence of its characters, over letters, the   *)
(* space, the hyphen and the line break. textwrap.wrap(text, width) runs   *)
(* with its defaults: whitespace is replaced by spaces, the text is split  *)
(* into chunks (runs of whitespace, words, and the parts of a hyphenated   *)
(* word), lines are filled greedily, whitespace at the ends of a line is   *)
(* dropped, and a chunk longer than the width is broken.                   *)
(***************************************************************************)

NL == "\n"
Letters == {"a", "b", "A", "B"}
Whitespace == {" ", NL}

\* The character at a 1-based position, "" outside the text.
At(text, i) == IF i >= 1 /\ i <= Len(text) THEN text[i] ELSE ""

\* TextWrapper._munge_whitespace: each whitespace character becomes a space.
Munge(text) ==
    [i \in 1..Len(text) |-> IF text[i] \in Whitespace THEN " " ELSE text[i]]

\* wordsep_re, hyphenated word: a chunk ends after a hyphen that follows two
\* letters (or letter, hyphen, letter) and precedes letter, optional hyphen,
\* letter.
HyphenBreak(text, i) ==
    /\ At(text, i) = "-"
    /\ \/ At(text, i - 2) \in Letters /\ At(text, i - 1) \in Letters
       \/ /\ At(text, i - 3) \in Letters
          /\ At(text, i - 2) = "-"
          /\ At(text, i - 1) \in Letters
    /\ At(text, i + 1) \in Letters
    /\ \/ At(text, i + 2) \in Letters
       \/ At(text, i + 2) = "-" /\ At(text, i + 3) \in Letters

\* TextWrapper._split: the chunks of a munged text without "--".
Chunks(text) ==
    LET ends == {i \in 1..Len(text) :
                    \/ i = Len(text)
                    \/ (text[i] = " ") # (text[i + 1] = " ")
                    \/ HyphenBreak(text, i)}
        nth == [j \in 1..Cardinality(ends) |->
                   CHOOSE e \in ends : Cardinality({x \in ends : x <= e}) = j]
    IN  [j \in 1..Cardinality(ends) |->
            SubSeq(text, IF j = 1 THEN 1 ELSE nth[j - 1] + 1, nth[j])]

\* "".join(chunks)
RECURSIVE Flatten(_)
Flatten(chunks) ==
    IF chunks = <<>> THEN <<>> ELSE Head(chunks) \o Flatten(Tail(chunks))

\* chunk.strip() == ""
IsBlank(chunk) == \A i \in 1..Len(chunk) : chunk[i] = " "

\* The number of leading chunks the inner loop of _wrap_chunks takes.
Fitting(chunks, width) ==
    CHOOSE k \in 0..Len(chunks) :
        /\ Len(Flatten(SubSeq(chunks, 1, k))) <= width
        /\ k = Len(chunks) \/ Len(Flatten(SubSeq(chunks, 1, k + 1))) > width

\* Mutant of handle_long_word: the chunk is put on the line whole
\* (break_long_words = False).
handle_long_word_whole(chunk, cur_len, width) ==
    [piece |-> chunk, rest |-> <<>>]

\* TextWrapper._handle_long_word for a chunk longer than the width: the part
\* put on the current line and the part left.
handle_long_word(chunk, cur_len, width) ==
    LET space_left == IF width < 1 THEN 1 ELSE width - cur_len
        hyphens == {p \in 2..space_left :
                       /\ chunk[p] = "-"
                       /\ \E q \in 1..(p - 1) : chunk[q] # "-"}
        end == IF hyphens # {}
               THEN CHOOSE p \in hyphens : \A q \in hyphens : q <= p
               ELSE space_left
    IN  [piece |-> SubSeq(chunk, 1, end),
         rest |-> SubSeq(chunk, end + 1, Len(chunk))]

\* TextWrapper._wrap_chunks, for width > 0
RECURSIVE wrap_chunks(_, _, _)
wrap_chunks(chunks, width, lines) ==
    IF chunks = <<>>
    THEN lines
    ELSE LET kept == IF IsBlank(Head(chunks)) /\ lines # <<>>
                     THEN Tail(chunks) ELSE chunks
             n == Fitting(kept, width)
             taken == SubSeq(kept, 1, n)
             left == SubSeq(kept, n + 1, Len(kept))
             long == left # <<>> /\ Len(Head(left)) > width
             h == handle_long_word(Head(left), Len(Flatten(taken)), width)
             cur == IF long THEN Append(taken, h.piece) ELSE taken
             rest == IF long
                     THEN (IF h.rest = <<>> THEN <<>> ELSE <<h.rest>>) \o Tail(left)
                     ELSE left
             line == IF cur # <<>> /\ IsBlank(cur[Len(cur)])
                     THEN SubSeq(cur, 1, Len(cur) - 1) ELSE cur
         IN  wrap_chunks(rest, width,
                         IF line # <<>> THEN Append(lines, Flatten(line)) ELSE lines)

\* textwrap.wrap(text, width=width), for width > 0
textwrap_wrap(text, width) == wrap_chunks(Chunks(Munge(text)), width, <<>>)

\* "\n".join(lines)
RECURSIVE JoinLines(_)
JoinLines(lines) ==
    IF lines = <<>> THEN <<>>
    ELSE IF Len(lines) = 1 THEN Head(lines)
         ELSE Head(lines) \o <<NL>> \o JoinLines(Tail(lines))

\* int(box_width_frac * 25), the fraction given in thousandths
CharsPerFraction(box_width_frac) == (box_width_frac * 25) \div 1000

\* _smart_wrap(text, box_width_frac)
smart_wrap_result(text, box_width_frac) ==
    LET chars_per_line == Max(10, CharsPerFraction(box_width_frac))
    IN  IF \E i \in 1..Len(text) : text[i] = NL
        THEN [ret |-> text, exc |-> None, width |-> chars_per_line]
        ELSE IF Len(text) <= chars_per_line
             THEN [ret |-> text, exc |-> None, width |-> chars_per_line]
             ELSE [ret |-> JoinLines(textwrap_wrap(text, chars_per_line)),
                   exc |-> None, width |-> chars_per_line]

\* wrap_text(text, max_chars_per_line); textwrap.wrap raises ValueError for a
\* width that is not positive.
wrap_text_result(text, max_chars_per_line) ==
    IF Len(text) <= max_chars_per_line
    THEN [ret |-> text, exc |-> None, width |-> max_chars_per_line]
    ELSE IF max_chars_per_line <= 0
         THEN [ret |-> <<>>, exc |-> "ValueError", width |-> max_chars_per_line]
         ELSE [ret |-> JoinLines(textwrap_wrap(text, max_chars_per_line)),
               exc |-> None, width |-> max_chars_per_line]

\* The texts handed to the wrapping functions: up to MaxWords words, with a
\* space, two spaces or a line break between them. The empty word gives
\* texts that start or end with whitespace.
MaxWords == 3
Rep(c, n) == [i \in 1..n |-> c]
WrapWords ==
    {<<>>, Rep("a", 2), Rep("a", 12), Rep("a", 3) \o <<"-">> \o Rep("b", 8)}
WrapSeparators == {<<" ">>, <<" ", " ">>, <<NL>>}
RECURSIVE TextsOf(_)
TextsOf(n) ==
    IF n = 1 THEN WrapWords
    ELSE TextsOf(n - 1)
         \cup {t \o s \o w : t \in TextsOf(n - 1), s \in WrapSeparators, w \in WrapWords}
WrapTexts == TextsOf(MaxWords)

\* Box widths (pos.scale_x) in thousandths, and values of max_chars_per_line.
BoxWidthFractions == {200, 480, 1000}
MaxCharsPerLine == {0, 10, 30}

NoWrap == [op |-> "none", text |-> <<>>, ret |-> <<>>, exc |-> None, width |-> 0]

\* The call of _smart_wrap under observation.
smart_wrap(text, box_width_frac) ==
    /\ wrapped = NoWrap
    /\ wrapped' = [op |-> "_smart_wrap", text |-> text]
                      @@ smart_wrap_result(text, box_width_frac)
    /\ UNCHANGED <<cache_vars, last, resolver_vars, render_vars,
                   coded, meme_lines, texts, fetched_at,
                   template_str, meme_fig, threads>>

\* The call of wrap_text under observation.
wrap_text(text, max_chars_per_line) ==
    /\ wrapped = NoWrap
    /\ wrapped' = [op |-> "wrap_text", text |-> text]
                      @@ wrap_text_result(text, max_chars_per_line)
    /\ UNCHANGED <<cache_vars, last, resolver_vars, render_vars,
                   coded, meme_lines, texts, fetched_at,
                   template_str, meme_fig, threads>>

(***************************************************************************)
(* The memegen URL encoding of a text. str.replace(old, new) replaces the  *)
(* occurrences of old from left to right, without overlap; the tables are  *)
(* applied in their order. The marker "\x00" of the decoder is the         *)
(* character "NUL".                                                        *)
(***************************************************************************)

\* str.replace(old, new), for old not empty
RECURSIVE Replace(_, _, _)
Replace(text, old, new) ==
    IF Len(text) < Len(old)
    THEN text
    ELSE IF SubSeq(text, 1, Len(old)) = old
         THEN new \o Replace(SubSeq(text, Len(old) + 1, Len(text)), old, new)
         ELSE <<Head(text)>> \o Replace(Tail(text), old, new)

\* _ENCODE_MAP: (char, replacement)
ENCODE_MAP ==
    << <<"_", <<"_", "_">> >>,
       <<"-", <<"-", "-">> >>,
       <<"?", <<"~", "q">> >>,
       <<"&", <<"~", "a">> >>,
       <<"%", <<"~", "p">> >>,
       <<"#", <<"~", "h">> >>,
       <<"/", <<"~", "s">> >>,
       <<"\\", <<"~", "b">> >>,
       <<"<", <<"~", "l">> >>,
       <<">", <<"~", "g">> >>,
       <<"\"", <<"'", "'">> >>,
       <<NL, <<"~", "n">> >>,
       <<" ", <<"_">> >> >>

\* encode_text_for_url(text)
encode_text_for_url_result(text) ==
    LET RECURSIVE from(_, _)
        from(result, i) ==
            IF i > Len(ENCODE_MAP) THEN result
            ELSE from(Replace(result, <<ENCODE_MAP[i][1]>>, ENCODE_MAP[i][2]), i + 1)
    IN  from(text, 1)

SENTINEL == "NUL"
SentinelUnderscore == <<SENTINEL, "U", "N", "D", "E", "R", "S", "C", "O", "R", "E">>
SentinelDash == <<SENTINEL, "D", "A", "S", "H">>
SentinelQuote == <<SENTINEL, "Q", "U", "O", "T", "E">>

\* _TILDE_DECODE_MAP: (char, replacement)
TILDE_DECODE_MAP ==
    << <<"?", <<"~", "q">> >>,
       <<"&", <<"~", "a">> >>,
       <<"%", <<"~", "p">> >>,
       <<"#", <<"~", "h">> >>,
       <<"/", <<"~", "s">> >>,
       <<"\\", <<"~", "b">> >>,
       <<"<", <<"~", "l">> >>,
       <<">", <<"~", "g">> >>,
       <<NL, <<"~", "n">> >> >>

\* decode_text_from_url(text)
decode_text_from_url_result(text) ==
    LET protected == Replace(Replace(Replace(text,
                         <<"_", "_">>, SentinelUnderscore),
                         <<"-", "-">>, SentinelDash),
                         <<"'", "'">>, SentinelQuote)
        spaced == Replace(protected, <<"_">>, <<" ">>)
        RECURSIVE from(_, _)
        from(result, i) ==
            IF i > Len(TILDE_DECODE_MAP) THEN result
            ELSE from(Replace(result, TILDE_DECODE_MAP[i][2], <<TILDE_DECODE_MAP[i][1]>>),
                      i + 1)
        decoded == from(spaced, 1)
    IN  Replace(Replace(Replace(decoded,
            SentinelUnderscore, <<"_">>),
            SentinelDash, <<"-">>),
            SentinelQuote, <<"\"">>)

\* The plain texts that are encoded: up to MaxPlainLen characters of the
\* encoding's alphabet.
MaxPlainLen == 3
PlainChars == {"q", " ", "_", "-", "\"", "'", "~", "?", NL}
RECURSIVE TextsUpTo(_)
TextsUpTo(n) ==
    IF n = 0 THEN {<<>>}
    ELSE TextsUpTo(n - 1)
         \cup {Append(t, c) : t \in TextsUpTo(n - 1), c \in PlainChars}
PlainTexts == TextsUpTo(MaxPlainLen)

NoCoding == [op |-> "none", text |-> <<>>, ret |-> <<>>, plain |-> <<>>]

\* encoded = encode_text_for_url(text)
encode_text_for_url(text) ==
    /\ coded.op = "none"
    /\ coded' = [op |-> "encode_text_for_url", text |-> text,
                 ret |-> encode_text_for_url_result(text), plain |-> text]
    /\ UNCHANGED <<cache_vars, last, resolver_vars, render_vars,
                   wrapped, meme_lines, texts, fetched_at,
                   template_str, meme_fig, threads>>

\* decode_text_from_url(text); plain keeps the text that was encoded.
decode_text_from_url(text) ==
    /\ coded.op = "encode_text_for_url"
    /\ coded' = [op |-> "decode_text_from_url", text |-> text,
                 ret |-> decode_text_from_url_result(text), plain |-> coded.plain]
    /\ UNCHANGED <<cache_vars, last, resolver_vars, render_vars,
                   wrapped, meme_lines, texts, fetched_at,
                   template_str, meme_fig, threads>>

(***************************************************************************)
(* The Meme builder: Meme._lines, a list of str. A negative index is       *)
(* Python's: it counts from the end and raises IndexError past the start.  *)
(***************************************************************************)

\* The texts and indices handed to the builder.
LineTexts == {"", "x", "y"}
MaxIndex == 3
Indices == -1..MaxIndex

\* Mutant of text_result: the list is padded with the text.
text_pads_with_text(lines, index, text) ==
    IF index < 0
    THEN IF -index <= Len(lines)
         THEN [lines |-> [lines EXCEPT ![Len(lines) + index + 1] = text], exc |-> None]
         ELSE [lines |-> lines, exc |-> "IndexError"]
    ELSE [lines |-> [i \in 1..Max(Len(lines), index + 1) |->
                        IF i <= Len(lines) /\ i # index + 1 THEN lines[i] ELSE text],
          exc |-> None]

\* Meme.text(index, text): the list after the while loop and the assignment.
text_result(lines, index, text) ==
    IF index < 0
    THEN IF -index <= Len(lines)
         THEN [lines |-> [lines EXCEPT ![Len(lines) + index + 1] = text], exc |-> None]
         ELSE [lines |-> lines, exc |-> "IndexError"]
    ELSE LET padded == [i \in 1..Max(Len(lines), index + 1) |->
                           IF i <= Len(lines) THEN lines[i] ELSE ""]
         IN  [lines |-> [padded EXCEPT ![index + 1] = text], exc |-> None]

\* The record of a builder call; a call that returns, returns self.
BuilderCall(op, index, text, exc) ==
    [index |-> index, text |-> text]
        @@ Call(op, None, None, IF exc = None THEN "self" ELSE None, exc, <<>>, None)

\* Meme.top(text)
top(text) ==
    /\ meme_lines' = IF Len(meme_lines) = 0
                     THEN Append(meme_lines, text)
                     ELSE [meme_lines EXCEPT ![1] = text]
    /\ last' = BuilderCall("top", 0, text, None)
    /\ UNCHANGED <<cache_vars, resolver_vars, render_vars,
                   wrapped, coded, texts, fetched_at,
                   template_str, meme_fig, threads>>

\* Meme.bottom(text)
bottom(text) ==
    LET padded == IF Len(meme_lines) < 2
                  THEN [i \in 1..2 |-> IF i <= Len(meme_lines) THEN meme_lines[i] ELSE ""]
                  ELSE meme_lines
    IN  /\ meme_lines' = [padded EXCEPT ![2] = text]
        /\ last' = BuilderCall("bottom", 1, text, None)
        /\ UNCHANGED <<cache_vars, resolver_vars, render_vars,
                       wrapped, coded, texts, fetched_at,
                   template_str, meme_fig, threads>>

\* Meme.text(index, text)
meme_text(index, t) ==
    LET r == text_result(meme_lines, index, t)
    IN  /\ meme_lines' = r.lines
        /\ last' = BuilderCall("text", index, t, r.exc)
        /\ UNCHANGED <<cache_vars, resolver_vars, render_vars,
                       wrapped, coded, texts, fetched_at,
                   template_str, meme_fig, threads>>

(***************************************************************************)
(* Rendering. A render adds one Text per drawn line to its axes; a Text is *)
(* recorded with the index of its line, the TextPosition it is drawn in    *)
(* (its x, y and alignment are functions of the position) and the text it  *)
(* displays: the line, styled and wrapped. Its font size is what           *)
(* _fit_text_to_box leaves.                                                *)
(***************************************************************************)

\* str.upper() and str.lower() over the letters of the model.
UpperChar(c) ==
    CASE c = "a" -> "A" [] c = "b" -> "B" [] c = "x" -> "X" [] c = "y" -> "Y"
      [] OTHER -> c
LowerLetter(c) ==
    CASE c = "A" -> "a" [] c = "B" -> "b" [] c = "X" -> "x" [] c = "Y" -> "y"
      [] OTHER -> c

\* apply_style(text, style)
apply_style(chars, style) ==
    CASE style = "upper" -> [i \in 1..Len(chars) |-> UpperChar(chars[i])]
      [] style = "lower" -> [i \in 1..Len(chars) |-> LowerLetter(chars[i])]
      [] OTHER -> chars

\* pos.scale_x in thousandths
Thousandths(float) == (float[1] * 1000) \div float[2]

\* _draw_meme_text(ax, text, x, y, pos, style=style): the Text of line i.
draw_meme_text(i, chars, pos, style) ==
    [index |-> i, pos |-> pos,
     text |-> smart_wrap_result(apply_style(chars, style), Thousandths(pos.scale_x)).ret]

\* Mutant of draw_lines: an empty line does not use up its position.
draw_lines_shifting(i, positions, lines, style) ==
    LET RECURSIVE place(_, _)
        place(j, slot) ==
            IF j >= Len(lines) \/ slot > Len(positions) THEN <<>>
            ELSE IF lines[j + 1] = <<>> THEN place(j + 1, slot)
            ELSE <<draw_meme_text(j, lines[j + 1], positions[slot], style)>>
                     \o place(j + 1, slot + 1)
    IN  place(i, 1)

\* for i, text in enumerate(lines): the Texts of the lines from index i on.
RECURSIVE draw_lines(_, _, _, _)
draw_lines(i, positions, lines, style) ==
    IF i >= Len(lines)
    THEN <<>>
    ELSE (IF lines[i + 1] = <<>> \/ i >= Len(positions)
          THEN <<>>
          ELSE <<draw_meme_text(i, lines[i + 1], positions[i + 1], style)>>)
             \o draw_lines(i + 1, positions, lines, style)

\* The positions of render_memify's layout preset.
MemifyPositions(position) ==
    CASE position = "top-bottom" -> DEFAULT_TEXT_POSITIONS
      [] position = "top" -> <<DEFAULT_TEXT_POSITIONS[1]>>
      [] position = "bottom" -> <<DEFAULT_TEXT_POSITIONS[2]>>
      [] position = "center" -> <<TextPosition(<<2, 5>>, <<1, 5>>)>>
      [] OTHER -> DEFAULT_TEXT_POSITIONS

\* The lines handed to a render: each empty, short, or long enough to be
\* wrapped; fewer lines than positions, as many, and more.
ShortLine == <<"a", "b">>
LongLine == Rep("a", 12) \o <<" ">> \o Rep("b", 14)
RenderLines ==
    {<<>>, <<ShortLine>>, <<<<>>>>, <<LongLine, ShortLine>>, <<<<>>, ShortLine>>,
     <<ShortLine, <<>>, LongLine>>, <<<<>>, ShortLine, LongLine>>,
     <<ShortLine, ShortLine, ShortLine>>, <<<<>>, <<>>, ShortLine, LongLine>>}
Styles == {"upper", "none"}
Presets == {"top-bottom", "top", "bottom", "center", "diagonal"}

\* The record of a render.
RenderCall(op, lines, position, with_cache, answer, r) ==
    [lines |-> lines, position |-> position, with_cache |-> with_cache]
        @@ Call(op, IF op = "render_memify" THEN None ELSE tpl.image_url, answer,
                r.ret, r.exc, r.io, r.evicted)

\* render_meme(template, lines, style=style, cache=cache) with the Template
\* under observation: the image is acquired, then the lines are drawn.
render_meme(lines, style, with_cache) ==
    /\ tpl # NoTemplate
    /\ \E answer \in AcquireAnswers(with_cache) :
         LET r == template_get_image_result(with_cache, answer)
             key == image_key(tpl.image_url)
         IN  /\ image_array' = r.slot
             /\ memory' = r.memory
             /\ images' = r.images
             /\ dirs' = r.dirs
             /\ recency' = IF /\ HasKey(r.memory, key)
                              /\ \E i \in 1..Len(r.io) :
                                    r.io[i] \in {"memory_hit", "memory_put"}
                           THEN Touch(recency, key) ELSE recency
             /\ texts' = IF r.exc # None THEN <<>>
                         ELSE draw_lines(0, tpl.text_positions, lines, style)
             /\ last' = RenderCall("render_meme", lines, None, with_cache, answer, r)
    /\ UNCHANGED <<max_memory, catalog, now, resolver_vars, tpl, fit,
                   wrapped, coded, meme_lines, fetched_at,
                   template_str, meme_fig, threads>>

\* render_memify(fig, lines, position=position, style=style)
render_memify(lines, position, style) ==
    /\ texts' = draw_lines(0, MemifyPositions(position), lines, style)
    /\ last' = RenderCall("render_memify", lines, position, FALSE, None,
                          [ret |-> None, exc |-> None, io |-> <<>>, evicted |-> None])
    /\ UNCHANGED <<cache_vars, resolver_vars, render_vars,
                   wrapped, coded, meme_lines, fetched_at,
                   template_str, meme_fig, threads>>

(***************************************************************************)
(* The operations of one TemplateRegistry. The answers of the memegen API  *)
(* to the requests of a call are inputs of the call: a call that makes no  *)
(* listing request takes the answer "error", which is not read, and        *)
(* likewise for the single-item request.                                   *)
(***************************************************************************)

\* "listing" and "item" keep the answers that were read.
RegistryCall(op, arg, lresp, iresp, r) ==
    [arg |-> arg,
     listing |-> IF Contains(r.io, "list_request") THEN lresp ELSE None,
     item |-> IF Contains(r.io, "item_request") THEN iresp ELSE None]
        @@ Call(op, None, None, r.ret, r.exc, r.io, None)

\* registry.get(template_id)
get(template_id, lresp, iresp) ==
    LET r == registry_get(template_id, lresp, iresp)
    IN  /\ Contains(fetch_catalog("error").io, "list_request") \/ lresp = "error"
        /\ Contains(registry_get(template_id, lresp, "error").io, "item_request")
              \/ iresp = "error"
        /\ reg_catalog' = r.slot
        /\ catalog' = r.text
        /\ dirs' = r.dirs
        /\ fetched_at' = FetchTime(r)
        /\ last' = RegistryCall("get", template_id, lresp, iresp, r)
        /\ UNCHANGED <<max_memory, memory, images, now, recency, fs, cache_enabled,
                       render_vars, wrapped, coded, meme_lines, texts,
                   template_str, meme_fig, threads>>

\* " ".join([item.get("id", ""), item.get("name", ""),
\*           " ".join(item.get("keywords", []))]).lower()
\* of an entry that has neither name nor keywords
Searchable(item) == Lower(Chars(item.id) \o <<" ">> \o <<" ">>)

\* needle in haystack, for strings
IsSubstring(needle, haystack) ==
    \E i \in 0..(Len(haystack) - Len(needle)) :
        SubSeq(haystack, i + 1, i + Len(needle)) = needle

\* The entries of a template list that match the query, in their order.
RECURSIVE Matching(_, _)
Matching(entries, query) ==
    IF entries = <<>> THEN <<>>
    ELSE (IF IsSubstring(Lower(Chars(query)), Searchable(Head(entries)))
          THEN <<Head(entries)>> ELSE <<>>)
             \o Matching(Tail(entries), query)

\* The ids and the queries of the model.
LookupIds == {"buzz", "nope", "a/buzz"}
Queries == {"b", "a", "nope", "buzz.PNG"}

\* registry.search(query): ret is the list of matching entries.
search_result(query, lresp) ==
    LET f == fetch_catalog(lresp)
    IN  IF f.exc # None
        THEN Outcome(<<>>, f.exc, f.io, f.slot, f.text, f.dirs)
        ELSE Outcome(Matching(CatalogEntries(f.ret), query), None, f.io,
                     f.slot, f.text, f.dirs)

\* registry.search(query)
search(query, lresp) ==
    LET r == search_result(query, lresp)
    IN  /\ Contains(fetch_catalog("error").io, "list_request") \/ lresp = "error"
        /\ reg_catalog' = r.slot
        /\ catalog' = r.text
        /\ dirs' = r.dirs
        /\ fetched_at' = FetchTime(r)
        /\ last' = RegistryCall("search", query, lresp, "error", r)
        /\ UNCHANGED <<max_memory, memory, images, now, recency, fs, cache_enabled,
                       render_vars, wrapped, coded, meme_lines, texts,
                   template_str, meme_fig, threads>>

\* registry.list_all(): ret is the template list.
list_all(lresp) ==
    LET r == fetch_catalog(lresp)
    IN  /\ Contains(fetch_catalog("error").io, "list_request") \/ lresp = "error"
        /\ reg_catalog' = r.slot
        /\ catalog' = r.text
        /\ dirs' = r.dirs
        /\ fetched_at' = FetchTime(r)
        /\ last' = RegistryCall("list_all", None, lresp, "error", r)
        /\ UNCHANGED <<max_memory, memory, images, now, recency, fs, cache_enabled,
                       render_vars, wrapped, coded, meme_lines, texts,
                   template_str, meme_fig, threads>>

\* registry.refresh(): the slot is unset before the request is made.
refresh_result(lresp) ==
    IF lresp = "error"
    THEN Outcome(None, "HTTPError", <<"list_request">>, None, catalog, dirs)
    ELSE IF cache_enabled
         THEN Outcome(None, None, <<"list_request", "catalog_write">>,
                      lresp, set_catalog_text(lresp), TRUE)
         ELSE Outcome(None, None, <<"list_request">>, lresp, catalog, dirs)

\* registry.refresh()
refresh(lresp) ==
    LET r == refresh_result(lresp)
    IN  /\ reg_catalog' = r.slot
        /\ catalog' = r.text
        /\ dirs' = r.dirs
        /\ fetched_at' = IF r.slot = None THEN Never ELSE now
        /\ last' = RegistryCall("refresh", None, lresp, "error", r)
        /\ UNCHANGED <<max_memory, memory, images, now, recency, fs, cache_enabled,
                       render_vars, wrapped, coded, meme_lines, texts,
                   template_str, meme_fig, threads>>

(***************************************************************************)
(* meme(template, *lines): the reference is resolved with the registry of  *)
(* the module, then render_meme acquires the image through the cache of    *)
(* the module and draws the lines. The Template it builds becomes the      *)
(* Template under observation. Meme.render() makes the same two calls,     *)
(* with a TemplateCache of its own.                                        *)
(***************************************************************************)

\* The references handed to meme(), and the answers of the API to it: the
\* listing whose "buzz" has the blank image https://e/b.png.
MemeRefs == {"buzz", "nope", "buzz.png"}
MemeListResponses == {"cat_blank", "error"}
MemeItemResponses == {"404", "error"}
MemeLines == {<<>>, <<<<"a", "b">>, <<"b">>>>, <<<<>>, <<"a">>, <<"b">>>>}

\* What the image source of a Template answers when it is asked.
SourceAnswers(url, slot, with_cache) ==
    LET io == get_image_of(url, slot, with_cache, "png_a").io
    IN  IF Contains(io, "remote_fetch") THEN RemoteAnswers
        ELSE IF Contains(io, "local_read") THEN Bytes
        ELSE {None}

\* The result of meme(template, *lines, style=style, show=False).
meme_result(template, lines, style, lresp, iresp, answer) ==
    LET r == resolve_result(template, lresp, iresp)
        a == get_image_of(r.ret.image_url, None, TRUE, answer)
    IN  IF r.exc # None
        THEN [tmpl |-> NoTemplate, exc |-> r.exc, io |-> r.io, slot |-> r.slot,
              text |-> r.text, dirs |-> r.dirs, image |-> None, memory |-> memory,
              images |-> images, evicted |-> None, texts |-> <<>>]
        ELSE [tmpl |-> r.ret, exc |-> a.exc, io |-> r.io \o a.io, slot |-> r.slot,
              text |-> r.text, dirs |-> r.dirs \/ a.dirs, image |-> a.slot,
              memory |-> a.memory, images |-> a.images, evicted |-> a.evicted,
              texts |-> IF a.exc # None THEN <<>>
                        ELSE draw_lines(0, r.ret.text_positions, lines, style)]

\* meme(template, *lines, style=style, show=False)
meme(template, lines, style, lresp, iresp) ==
    LET probe == resolve_result(template, "error", "error")
        r == resolve_result(template, lresp, iresp)
    IN  /\ Contains(probe.io, "list_request") \/ lresp = "error"
        /\ Contains(resolve_result(template, lresp, "error").io, "item_request")
              \/ iresp = "error"
        /\ \E answer \in (IF r.exc # None THEN {None}
                          ELSE SourceAnswers(r.ret.image_url, None, TRUE)) :
           \E m \in {meme_result(template, lines, style, lresp, iresp, answer)} :
             LET key == image_key(m.tmpl.image_url)
             IN  /\ reg_catalog' = m.slot
                 /\ catalog' = m.text
                 /\ dirs' = m.dirs
                 /\ fetched_at' = FetchTime(r)
                 /\ tpl' = m.tmpl
                 /\ image_array' = m.image
                 /\ memory' = m.memory
                 /\ images' = m.images
                 /\ recency' = IF /\ m.tmpl # NoTemplate
                                  /\ HasKey(m.memory, key)
                                  /\ \E i \in 1..Len(m.io) :
                                        m.io[i] \in {"memory_hit", "memory_put"}
                               THEN Touch(recency, key) ELSE recency
                 /\ texts' = m.texts
                 /\ last' = [ref |-> template, lines |-> lines]
                                @@ RegistryCall("meme", template, lresp, iresp,
                                                [ret |-> None, exc |-> m.exc, io |-> m.io])
        /\ UNCHANGED <<max_memory, now, fs, cache_enabled, fit,
                       wrapped, coded, meme_lines,
                   template_str, meme_fig, threads>>

\* Meme._fig is None: no figure has been rendered.
NoFigure == [drawn |-> FALSE, texts |-> <<>>]

\* The templates a Meme is made for.
MemeTemplates == {"buzz", "nope", "buzz.png"}

\* The lines a Meme is made with.
InitialLines == {<<>>, <<"x">>}

\* The characters of a line of at most one character.
LineChars(t) == IF t = "" THEN <<>> ELSE <<t>>

\* The result of Meme.render(): _get_template, then render_meme with the
\* Meme's lines and its cache. Its figure (fig) is NoFigure when it raises.
render_result(lresp, iresp, answer) ==
    LET r == IF tpl # NoTemplate
             THEN Outcome(tpl, None, <<>>, reg_catalog, catalog, dirs)
             ELSE resolve_result(template_str, lresp, iresp)
        slot == IF tpl # NoTemplate THEN image_array ELSE None
        a == get_image_of(r.ret.image_url, slot, TRUE, answer)
    IN  IF r.exc # None
        THEN [tmpl |-> NoTemplate, exc |-> r.exc, io |-> r.io, slot |-> r.slot,
              text |-> r.text, dirs |-> r.dirs, image |-> None, memory |-> memory,
              images |-> images, fig |-> NoFigure, resolved |-> TRUE]
        ELSE [tmpl |-> r.ret, exc |-> a.exc, io |-> r.io \o a.io, slot |-> r.slot,
              text |-> r.text, dirs |-> r.dirs \/ a.dirs, image |-> a.slot,
              memory |-> a.memory, images |-> a.images,
              fig |-> IF a.exc # None THEN NoFigure
                      ELSE [drawn |-> TRUE,
                            texts |-> draw_lines(0, r.ret.text_positions,
                                                 [i \in 1..Len(meme_lines) |->
                                                     LineChars(meme_lines[i])],
                                                  "upper")],
              resolved |-> tpl = NoTemplate]

\* The answers render reads: of the listing and the item request when it
\* resolves a catalog id, of the image source when it acquires the image.
RenderAnswers ==
    LET unread == resolve_result(template_str, "error", "error")
        listed == Contains(unread.io, "list_request") /\ tpl = NoTemplate
    IN  {<<lresp, iresp>> \in MemeListResponses \X MemeItemResponses :
           /\ listed \/ lresp = "error"
           /\ (tpl = NoTemplate
                 /\ Contains(resolve_result(template_str, lresp, "error").io,
                             "item_request"))
              \/ iresp = "error"}

\* What a render does to the Meme, the registry and the cache; op is the
\* method that was called, rendered tells whether it called render().
Rendering(op, rendered) ==
    \E ans \in RenderAnswers :
       \E probe \in {render_result(ans[1], ans[2], "png_a")} :
          \E answer \in (IF probe.tmpl = NoTemplate THEN {None}
                         ELSE SourceAnswers(probe.tmpl.image_url,
                                            IF tpl # NoTemplate THEN image_array
                                            ELSE None, TRUE)) :
             \E m \in {render_result(ans[1], ans[2], answer)} :
                /\ reg_catalog' = m.slot
                /\ catalog' = m.text
                /\ dirs' = m.dirs
                /\ fetched_at' = IF m.resolved
                                 THEN FetchTime(resolve_result(template_str,
                                                               ans[1], ans[2]))
                                 ELSE fetched_at
                /\ tpl' = m.tmpl
                /\ image_array' = m.image
                /\ memory' = m.memory
                /\ images' = m.images
                /\ recency' = IF /\ m.tmpl # NoTemplate
                                 /\ HasKey(m.memory, image_key(m.tmpl.image_url))
                                 /\ \E i \in 1..Len(m.io) :
                                       m.io[i] \in {"memory_hit", "memory_put"}
                              THEN Touch(recency, image_key(m.tmpl.image_url))
                              ELSE recency
                /\ meme_fig' = IF m.fig # NoFigure THEN m.fig ELSE meme_fig
                /\ texts' = IF m.fig # NoFigure THEN m.fig.texts ELSE texts
                /\ last' = [rendered |-> rendered, resolved |-> m.resolved,
                            shown |-> IF op = "render" THEN NoFigure ELSE m.fig]
                              @@ Call(op, None, None, None, m.exc, m.io, None)

\* Meme(template, *lines) with a template string
new_meme(template, lines) ==
    /\ template_str' = template
    /\ tpl' = NoTemplate
    /\ image_array' = None
    /\ meme_lines' = lines
    /\ meme_fig' = NoFigure
    /\ memory' = <<>>
    /\ recency' = <<>>
    /\ last' = Call("init", None, None, None, None, <<>>, None)
    /\ UNCHANGED <<max_memory, dirs, images, catalog, now, resolver_vars, fit,
                   wrapped, coded, texts, fetched_at, threads>>

\* Meme.render()
render ==
    /\ template_str # None
    /\ Rendering("render", TRUE)
    /\ UNCHANGED <<max_memory, now, fs, cache_enabled, fit,
                   wrapped, coded, meme_lines, template_str, threads>>

\* Mutant of show_or_save: render() is called whether or not there is a
\* figure.
show_or_save_always_renders(op) ==
    /\ template_str # None
    /\ Rendering(op, TRUE)
    /\ UNCHANGED <<max_memory, now, fs, cache_enabled, fit,
                   wrapped, coded, meme_lines, template_str, threads>>

\* Meme.show() and Meme.save(path): render() if there is no figure yet, then
\* the figure is displayed or written.
show_or_save(op) ==
    /\ template_str # None
    /\ IF meme_fig = NoFigure
       THEN Rendering(op, TRUE)
       ELSE /\ last' = [rendered |-> FALSE, resolved |-> FALSE, shown |-> meme_fig]
                          @@ Call(op, None, None, None, None, <<>>, None)
            /\ UNCHANGED <<reg_catalog, catalog, dirs, fetched_at, tpl, image_array,
                           memory, images, recency, meme_fig, texts>>
    /\ UNCHANGED <<max_memory, now, fs, cache_enabled, fit,
                   wrapped, coded, meme_lines, template_str, threads>>

\* Meme.show()
show == show_or_save("show")

\* Meme.save(path)
save == show_or_save("save")

(***************************************************************************)
(* Threads in one TemplateCache. A thread is preempted between two         *)
(* operations on the OrderedDict and between two file operations; each of  *)
(* these is one step.                                                      *)
(***************************************************************************)

\* The threads of the process.
Threads == {"t1", "t2"}

\* A file that is open for writing: created or truncated, its bytes not all
\* written yet.
Partial == "partial"

\* A thread: the call it is in (op, url, bytes), its position (pc), its local
\* variable (val), the content of the file it has opened for reading (seen)
\* and, when the call is over, what it returned (ret) or raised (exc).
Thread(pc, op, url, bytes, val, seen, ret, exc) ==
    [pc |-> pc, op |-> op, url |-> url, bytes |-> bytes, val |-> val,
     seen |-> seen, ret |-> ret, exc |-> exc]

\* A thread that is in no call.
IdleThread == Thread("idle", None, None, None, None, None, None, None)

\* The thread's call returns ret or raises exc.
Finished(th, ret, exc) == [th EXCEPT !.pc = "done", !.ret = ret, !.exc = exc]

\* self._memory[key] = value
SetItem(mem, key, value) ==
    IF HasKey(mem, key)
    THEN [i \in 1..Len(mem) |->
            IF mem[i].key = key THEN [key |-> key, value |-> value] ELSE mem[i]]
    ELSE Append(mem, [key |-> key, value |-> value])

\* What a step of a thread makes of the thread and of the cache.
Stepped(th, mem, files, d) ==
    [thread |-> th, memory |-> mem, images |-> files, dirs |-> d]

\* One step of a thread in get_image (g_), set_image (s_) or _memory_put (p_).
\* A KeyError of _memory_put is caught by the except clause of its caller.
cache_thread_step(th) ==
    LET key == image_key(th.url)
        returned == IF th.op = "get_image" THEN th.val ELSE None
    IN  CASE th.pc = "g_in" ->
               \* if key in self._memory:
               Stepped([th EXCEPT !.pc = IF HasKey(memory, key)
                                         THEN "g_move" ELSE "g_exists"],
                       memory, images, dirs)
          [] th.pc = "g_move" ->
               \* self._memory.move_to_end(key)
               IF HasKey(memory, key)
               THEN Stepped([th EXCEPT !.pc = "g_ret"], MoveToEnd(memory, key),
                            images, dirs)
               ELSE Stepped(Finished(th, None, "KeyError"), memory, images, dirs)
          [] th.pc = "g_ret" ->
               \* return self._memory[key]
               IF HasKey(memory, key)
               THEN Stepped(Finished(th, ValueOf(memory, key), None),
                            memory, images, dirs)
               ELSE Stepped(Finished(th, None, "KeyError"), memory, images, dirs)
          [] th.pc = "g_exists" ->
               \* if disk_path.exists():
               IF ImageFileExists(key)
               THEN Stepped([th EXCEPT !.pc = "g_open"], memory, images, dirs)
               ELSE Stepped(Finished(th, None, None), memory, images, dirs)
          [] th.pc \in {"g_open", "s_read"} ->
               \* img = np.array(Image.open(disk_path).convert("RGBA"))
               IF ~dirs \/ Decode(images[key]) = "raise"
               THEN Stepped(Finished([th EXCEPT !.seen = IF dirs THEN images[key]
                                                         ELSE NoFile],
                                     None, None),
                            memory, images, dirs)
               ELSE Stepped([th EXCEPT !.pc = "p_in", !.seen = images[key],
                                       !.val = Decode(images[key])],
                            memory, images, dirs)
          [] th.pc = "s_dirs" ->
               \* self._ensure_dirs()
               Stepped([th EXCEPT !.pc = "s_open"], memory, images, TRUE)
          [] th.pc = "s_open" ->
               \* disk_path.write_bytes(image_bytes): the file is opened
               Stepped([th EXCEPT !.pc = "s_write"], memory,
                       [images EXCEPT ![key] = Partial], TRUE)
          [] th.pc = "s_write" ->
               \* ... written and closed
               Stepped([th EXCEPT !.pc = "s_read"], memory,
                       [images EXCEPT ![key] = th.bytes], TRUE)
          [] th.pc = "p_in" ->
               \* if key in self._memory:
               Stepped([th EXCEPT !.pc = IF HasKey(memory, key)
                                         THEN "p_move" ELSE "p_len"],
                       memory, images, dirs)
          [] th.pc = "p_move" ->
               \* self._memory.move_to_end(key)
               IF HasKey(memory, key)
               THEN Stepped(Finished(th, returned, None), MoveToEnd(memory, key),
                            images, dirs)
               ELSE Stepped(Finished(th, None, None), memory, images, dirs)
          [] th.pc = "p_len" ->
               \* if len(self._memory) >= self._max_memory:
               Stepped([th EXCEPT !.pc = IF Len(memory) >= max_memory
                                         THEN "p_pop" ELSE "p_set"],
                       memory, images, dirs)
          [] th.pc = "p_pop" ->
               \* self._memory.popitem(last=False)
               IF memory = <<>>
               THEN Stepped(Finished(th, None, None), memory, images, dirs)
               ELSE Stepped([th EXCEPT !.pc = "p_set"], PopOldest(memory),
                            images, dirs)
          [] OTHER ->
               \* self._memory[key] = value
               Stepped(Finished(th, returned, None), SetItem(memory, key, th.val),
                       images, dirs)

\* The urls and the bytes of the threads' calls.
ThreadUrls == {"u1", "u2"}
ThreadBytes == {"png_a", "png_b"}

\* A thread calls cache.get_image(url).
call_get_image(t, url) ==
    /\ threads[t].pc \in {"idle", "done"}
    /\ threads' = [threads EXCEPT ![t] =
                      Thread("g_in", "get_image", url, None, None, None, None, None)]
    /\ UNCHANGED <<cache_vars, last, resolver_vars, render_vars,
                   wrapped, coded, meme_lines, texts, fetched_at,
                   template_str, meme_fig>>

\* A thread calls cache.set_image(url, image_bytes).
call_set_image(t, url, image_bytes) ==
    /\ threads[t].pc \in {"idle", "done"}
    /\ threads' = [threads EXCEPT ![t] =
                      Thread("s_dirs", "set_image", url, image_bytes, None, None,
                             None, None)]
    /\ UNCHANGED <<cache_vars, last, resolver_vars, render_vars,
                   wrapped, coded, meme_lines, texts, fetched_at,
                   template_str, meme_fig>>

\* A thread in get_image or set_image is scheduled for one step.
cache_step(t) ==
    /\ threads[t].pc \notin {"idle", "done"}
    /\ threads[t].op \in {"get_image", "set_image"}
    /\ \E r \in {cache_thread_step(threads[t])} :
          /\ threads' = [threads EXCEPT ![t] = r.thread]
          /\ memory' = r.memory
          /\ images' = r.images
          /\ dirs' = r.dirs
    /\ UNCHANGED <<max_memory, catalog, now, recency, last, resolver_vars,
                   render_vars, wrapped, coded, meme_lines, texts, fetched_at,
                   template_str, meme_fig>>

(***************************************************************************)
(* Threads in one TemplateRegistry. A thread is preempted between two      *)
(* statements of _fetch_catalog and of refresh; each read and each write   *)
(* of self._catalog is one step.                                           *)
(***************************************************************************)

\* What the caller of _fetch_catalog makes of the list it returns: list_all
\* returns it, get iterates over it and asks for the single item when the id
\* is not in it.
Used(th, value, iresp) ==
    IF th.op = "list_all"
    THEN Finished(th, value, None)
    ELSE IF value = None
         THEN Finished(th, None, "TypeError")
         ELSE LET entries == CatalogEntries(value)
                  i == FirstWithId(entries, th.url)
                  m == from_memegen(th.url, iresp)
              IN  IF i # 0
                  THEN Finished(th, from_api_data(entries[i]).id, None)
                  ELSE Finished(th, IF m.exc = None THEN m.ret.id ELSE None, m.exc)

\* What a step of a thread makes of the thread and of the registry.
Fetched(th, slot, text, d) ==
    [thread |-> th, slot |-> slot, text |-> text, dirs |-> d]

\* One step of a thread in _fetch_catalog (f_) or refresh (r_); lresp and
\* iresp answer the listing and the item request when the step makes one.
registry_thread_step(th, lresp, iresp) ==
    LET cached == get_catalog_result(DEFAULT_TTL)
    IN  CASE th.pc = "f_in" ->
               \* if self._catalog is not None:
               Fetched([th EXCEPT !.pc = IF reg_catalog # None
                                         THEN "f_ret" ELSE "f_disk"],
                       reg_catalog, catalog, dirs)
          [] th.pc = "f_ret" ->
               \* return self._catalog
               Fetched(Used(th, reg_catalog, iresp), reg_catalog, catalog, dirs)
          [] th.pc = "f_disk" ->
               \* if config.cache_enabled: cached = self._cache.get_catalog()
               IF cache_enabled /\ cached.exc # None
               THEN Fetched(Finished(th, None, cached.exc), reg_catalog, catalog, dirs)
               ELSE IF cache_enabled /\ cached.ret # None
                    THEN Fetched([th EXCEPT !.pc = "f_hit", !.val = cached.ret],
                                 reg_catalog, catalog, dirs)
                    ELSE Fetched([th EXCEPT !.pc = "f_req"], reg_catalog, catalog, dirs)
          [] th.pc = "f_hit" ->
               \* self._catalog = cached; return cached
               Fetched(Used(th, th.val, iresp), th.val, catalog, dirs)
          [] th.pc \in {"f_req", "r_req"} ->
               \* resp = requests.get(...); resp.raise_for_status()
               IF lresp = "error"
               THEN Fetched(Finished(th, None, "HTTPError"), reg_catalog, catalog, dirs)
               ELSE Fetched([th EXCEPT !.pc = IF th.pc = "f_req" THEN "f_set"
                                              ELSE "r_set",
                                       !.val = lresp],
                            reg_catalog, catalog, dirs)
          [] th.pc \in {"f_set", "r_set"} ->
               \* self._catalog = resp.json()
               Fetched([th EXCEPT !.pc = IF th.pc = "f_set" THEN "f_save"
                                         ELSE "r_save"],
                       th.val, catalog, dirs)
          [] th.pc \in {"f_save", "r_save"} ->
               \* if config.cache_enabled: self._cache.set_catalog(self._catalog)
               Fetched(IF th.pc = "f_save" THEN [th EXCEPT !.pc = "f_out"]
                       ELSE Finished(th, None, None),
                       reg_catalog,
                       IF cache_enabled THEN set_catalog_text(reg_catalog) ELSE catalog,
                       IF cache_enabled THEN TRUE ELSE dirs)
          [] th.pc = "f_out" ->
               \* return self._catalog
               Fetched(Used(th, reg_catalog, iresp), reg_catalog, catalog, dirs)
          [] OTHER ->
               \* refresh: self._catalog = None
               Fetched([th EXCEPT !.pc = "r_req"], None, catalog, dirs)

\* The lists the API answers a listing request with, and its failure.
ThreadListResponses == {"cat_buzz", "cat_empty", "error"}

\* A thread calls registry.list_all(), registry.get(template_id) or
\* registry.refresh().
call_registry(t, op, template_id) ==
    /\ threads[t].pc \in {"idle", "done"}
    /\ threads' = [threads EXCEPT ![t] =
                      Thread(IF op = "refresh" THEN "r_clear" ELSE "f_in", op,
                             template_id, None, None, None, None, None)]
    /\ UNCHANGED <<cache_vars, last, resolver_vars, render_vars,
                   wrapped, coded, meme_lines, texts, fetched_at,
                   template_str, meme_fig>>

\* A thread in the registry is scheduled for one step.
registry_step(t) ==
    /\ threads[t].pc \notin {"idle", "done"}
    /\ threads[t].op \in {"list_all", "get", "refresh"}
    /\ \E lresp \in ThreadListResponses, iresp \in ItemResponses :
          \E r \in {registry_thread_step(threads[t], lresp, iresp)} :
             /\ threads' = [threads EXCEPT ![t] = r.thread]
             /\ reg_catalog' = r.slot
             /\ catalog' = r.text
             /\ dirs' = r.dirs
    /\ UNCHANGED <<max_memory, memory, images, now, recency, last, fs,
                   cache_enabled, render_vars, wrapped, coded, meme_lines, texts,
                   fetched_at, template_str, meme_fig>>

\* TemplateCache.__init__ and TemplateRegistry.__init__ before the first call:
\* nothing on disk is touched, the memory tier is empty, the slot is unset.
InitState ==
    /\ memory = <<>>
    /\ dirs = FALSE
    /\ images = [k \in Keys |-> NoFile]
    /\ catalog = NoCatalog
    /\ now = Epoch
    /\ last = Call("init", None, None, None, None, <<>>, None)
    /\ recency = <<>>
    /\ fs = {}
    /\ cache_enabled = TRUE
    /\ reg_catalog = None
    /\ tpl = NoTemplate
    /\ image_array = None
    /\ fit = NoFit
    /\ wrapped = NoWrap
    /\ coded = NoCoding
    /\ meme_lines = <<>>
    /\ texts = <<>>
    /\ fetched_at = Never
    /\ template_str = None
    /\ meme_fig = NoFigure
    /\ threads = [t \in Threads |-> IdleThread]

\* A cache of any capacity.
Init == max_memory \in 0..MaxMemory /\ InitState

\* A cache of the largest capacity of the model.
InitLargest == max_memory = MaxMemory /\ InitState

Next ==
    \/ \E u \in URLs : get_image(u)
    \/ \E u \in URLs, b \in Bytes : set_image(u, b)
    \/ clear
    \/ Restart
    \/ \E k \in Keys : UnlinkImageFile(k)
    \/ \E k \in Keys : CorruptImageFile(k)

Spec == Init /\ [][Next]_vars

\* The catalog operations of one TemplateCache, the clock and the environment.
NextCatalog ==
    \/ \E ttl \in TTLs : get_catalog(ttl)
    \/ \E t \in Catalogs : set_catalog(t)
    \/ clear
    \/ \E text \in CatalogTexts : WriteCatalogFile(text)
    \/ \E t \in ClockPoints : Tick(t)

SpecCatalog == InitLargest /\ [][NextCatalog]_vars

\* Template resolution with one registry over one cache, the clock and the
\* environment.
NextResolve ==
    \/ \E ref \in Refs : resolve(ref)
    \/ NewRegistry
    \/ \E b \in BOOLEAN : SetCacheEnabled(b)
    \/ \E path \in LocalFiles : CreateLocalFile(path)
    \/ \E path \in LocalFiles : RemoveLocalFile(path)
    \/ \E t \in DayPoints : Tick(t)

SpecResolve == InitLargest /\ [][NextResolve]_vars

\* Building Templates, by both construction paths.
NextLayout ==
    \/ \E p \in Refs, n \in LineCounts : new_from_image(p, n)
    \/ \E data \in ApiEntries : new_from_api_data(data)
    \/ DropTemplate

SpecLayout == InitLargest /\ [][NextLayout]_vars

\* Every operation of one TemplateCache.
NextCache ==
    \/ \E u \in URLs : get_image(u)
    \/ \E u \in URLs, b \in Bytes : set_image(u, b)
    \/ \E ttl \in TTLs : get_catalog(ttl)
    \/ \E t \in Catalogs : set_catalog(t)
    \/ clear

SpecCache == Init /\ [][NextCache]_vars

\* The image of one Template, acquired through one TemplateCache that is also
\* written, cleared and damaged from outside.
NextAcquire ==
    \/ \E p \in AcquireSources : new_from_image(p, 2)
    \/ new_from_api_data(CatalogEntry("buzz", "int", 2, "https://e/b.png"))
    \/ \E with_cache \in BOOLEAN : template_get_image(with_cache)
    \/ \E img \in {Decode(b) : b \in Decodable} : preload(img)
    \/ \E u \in TemplateUrls, b \in Bytes : set_image(u, b)
    \/ clear
    \/ \E k \in Keys : UnlinkImageFile(k)
    \/ \E path \in {"buzz.png"} : CreateLocalFile(path)
    \/ \E path \in {"buzz.png"} : RemoveLocalFile(path)

SpecAcquire == Init /\ [][NextAcquire]_vars

\* Calls of _fit_text_to_box, one after the other.
NextFit ==
    \/ \E start \in StartSizes, box \in Boxes, m \in Callbacks :
          fit_text_to_box(start, box, m)
    \/ fit_iteration

SpecFit == InitLargest /\ [][NextFit]_vars

\* The loop of a call that has started runs on.
SpecFitFair == SpecFit /\ WF_vars(fit_iteration)

\* A cache that can hold an image.
InitPositive == max_memory \in 1..MaxMemory /\ InitState

\* Images stored and looked up, with nothing cleared and nothing damaged.
NextImages ==
    \/ \E u \in URLs : get_image(u)
    \/ \E u \in URLs, b \in Decodable : set_image(u, b)

SpecImages == InitPositive /\ [][NextImages]_vars

\* One call of a wrapping function.
NextWrap ==
    \/ \E t \in WrapTexts, f \in BoxWidthFractions : smart_wrap(t, f)
    \/ \E t \in WrapTexts, n \in MaxCharsPerLine : wrap_text(t, n)

SpecWrap == InitLargest /\ [][NextWrap]_vars

\* A text is encoded, and what comes out is decoded.
NextCoding ==
    \/ \E t \in PlainTexts : encode_text_for_url(t)
    \/ decode_text_from_url(coded.ret)

SpecCoding == InitLargest /\ [][NextCoding]_vars

\* The calls of one Meme builder.
NextBuilder ==
    \/ \E l \in {<<>>, <<"x">>, <<"x", "y", "x">>} : new_meme("buzz", l)
    \/ \E t \in LineTexts : top(t)
    \/ \E t \in LineTexts : bottom(t)
    \/ \E i \in Indices, t \in LineTexts : meme_text(i, t)

SpecBuilder == InitLargest /\ [][NextBuilder]_vars

\* Renders of Templates of one to three positions and of figures.
NextRender ==
    \/ \E n \in 1..3 : new_from_image("buzz.png", n)
    \/ CreateLocalFile("buzz.png")
    \/ \E img \in {Decode(b) : b \in Decodable} : preload(img)
    \/ \E l \in RenderLines, st \in Styles, with_cache \in BOOLEAN :
          render_meme(l, st, with_cache)
    \/ \E l \in RenderLines, ps \in Presets, st \in Styles : render_memify(l, ps, st)
    \/ DropTemplate

SpecRender == InitLargest /\ [][NextRender]_vars

\* One registry after the other over one cache directory, with the clock.
NextRegistry ==
    \/ \E id \in LookupIds, lresp \in ListResponses, iresp \in ItemResponses :
          get(id, lresp, iresp)
    \/ \E q \in Queries, lresp \in ListResponses : search(q, lresp)
    \/ \E lresp \in ListResponses : list_all(lresp)
    \/ \E lresp \in ListResponses : refresh(lresp)
    \/ NewRegistry
    \/ \E b \in BOOLEAN : SetCacheEnabled(b)
    \/ \E t \in DayPoints : Tick(t)

SpecRegistry == InitLargest /\ [][NextRegistry]_vars

\* The library as a script uses it: the registry and meme().
NextLibrary ==
    \/ \E id \in MemeRefs, lresp \in MemeListResponses, iresp \in MemeItemResponses :
          get(id, lresp, iresp)
    \/ \E q \in Queries, lresp \in MemeListResponses : search(q, lresp)
    \/ \E lresp \in MemeListResponses : list_all(lresp)
    \/ \E lresp \in MemeListResponses : refresh(lresp)
    \/ \E ref \in MemeRefs, l \in MemeLines, lresp \in MemeListResponses,
           iresp \in MemeItemResponses : meme(ref, l, "upper", lresp, iresp)
    \/ \E b \in BOOLEAN : SetCacheEnabled(b)
    \/ CreateLocalFile("buzz.png")

SpecLibrary == InitLargest /\ [][NextLibrary]_vars

\* One Meme after the other: built, its lines set, rendered, shown and saved.
NextMeme ==
    \/ \E t \in MemeTemplates, l \in InitialLines : new_meme(t, l)
    \/ \E t \in LineTexts : top(t)
    \/ \E t \in LineTexts : bottom(t)
    \/ render
    \/ show
    \/ save
    \/ CreateLocalFile("buzz.png")

SpecMeme == InitLargest /\ [][NextMeme]_vars

\* Two threads in the get_image and set_image of one TemplateCache.
NextThreads ==
    \/ \E t \in Threads, u \in ThreadUrls : call_get_image(t, u)
    \/ \E t \in Threads, u \in ThreadUrls, b \in ThreadBytes : call_set_image(t, u, b)
    \/ \E t \in Threads : cache_step(t)

SpecThreads == InitPositive /\ [][NextThreads]_vars

\* Two threads in the list_all, get and refresh of one TemplateRegistry.
NextRegistryThreads ==
    \/ \E t \in Threads : call_registry(t, "list_all", None)
    \/ \E t \in Threads, id \in {"buzz", "nope"} : call_registry(t, "get", id)
    \/ \E t \in Threads : call_registry(t, "refresh", None)
    \/ \E t \in Threads : registry_step(t)
    \/ \E b \in BOOLEAN : SetCacheEnabled(b)

SpecRegistryThreads == InitLargest /\ [][NextRegistryThreads]_vars

(***************************************************************************)
(* Claims about the image tier.                                            *)
(***************************************************************************)

\* A step that is a call of get_image or set_image.
ImageCall ==
    \/ \E u \in URLs : get_image(u)
    \/ \E u \in URLs, b \in Bytes : set_image(u, b)

\* The element of `order' (oldest touch first) that is least recently touched
\* among the keys of `resident'.
LeastRecentlyTouched(order, resident) ==
    order[CHOOSE i \in 1..Len(order) :
            /\ order[i] \in resident
            /\ \A j \in 1..(i - 1) : order[j] \notin resident]

\* C1. LRU bound: after every call of every cache, the in-memory tier holds
\* at most max_memory entries.
C1_LRUBound == Len(memory) <= max_memory

\* C1 witness: an insert into a full tier of the largest capacity has evicted.
C1_Witness ==
    /\ max_memory = MaxMemory
    /\ Len(memory) = max_memory
    /\ last.evicted # None

C3_RoundTrip ==
    [][\A u \in URLs :
          ( /\ max_memory >= 1
            /\ last.op = "set_image" /\ last.url = u /\ last.since = "nothing"
            /\ last.bytes \in Decodable
            /\ get_image(u) )
          => last'.ret = Decode(last.bytes)
       ]_vars

\* C4 as claimed, for every cache: a get_image of an image that is on disk,
\* decodable, and not in memory returns it and inserts it into the memory tier.
C4_PromotionAnyCapacity ==
    [][\A u \in URLs :
          ( /\ ~HasKey(memory, image_key(u))
            /\ ImageFileExists(image_key(u))
            /\ images[image_key(u)] \in Decodable
            /\ get_image(u) )
          => /\ last'.ret = Decode(images[image_key(u)])
             /\ HasKey(memory', image_key(u))
       ]_vars

\* C4, amended to a cache with max_memory >= 1. Promotion on disk hit: a
\* get_image of an image that is on disk, decodable, and not in memory returns
\* it and inserts it into the memory tier; and a get_image of the same url that
\* follows such a disk hit, with nothing but deletions of image files in
\* between, returns the same buffer and reads no disk file.
C4_Promotion ==
    [][\A u \in URLs :
          /\ ( /\ max_memory >= 1
               /\ ~HasKey(memory, image_key(u))
               /\ ImageFileExists(image_key(u))
               /\ images[image_key(u)] \in Decodable
               /\ get_image(u) )
             => /\ last'.ret = Decode(images[image_key(u)])
                /\ HasKey(memory', image_key(u))
                /\ ValueOf(memory', image_key(u)) = last'.ret
          /\ ( /\ max_memory >= 1
               /\ last.op = "get_image" /\ last.url = u
               /\ last.ret # None /\ last.io # <<"memory_hit">>
               /\ last.since \in {"nothing", "unlinked"}
               /\ get_image(u) )
             => /\ last'.ret = last.ret
                /\ last'.io = <<"memory_hit">>
       ]_vars

\* C4 witness: the second get_image succeeded from memory after a disk hit
\* whose file has been deleted in between.
C4_Witness ==
    /\ last.op = "get_image"
    /\ last.io = <<"memory_hit">>
    /\ last.ret # None
    /\ ~ImageFileExists(image_key(last.url))
    /\ Len(memory) = 1
    /\ recency = <<image_key(last.url)>>

\* C8. Corrupt disk image is a miss: a get_image of a key that is not in
\* memory and whose disk file does not decode returns None, raises nothing
\* and leaves the memory tier as it was.
C8_CorruptImageIsMiss ==
    [][\A u \in URLs :
          ( /\ ~HasKey(memory, image_key(u))
            /\ ImageFileExists(image_key(u))
            /\ images[image_key(u)] \in Undecodable
            /\ get_image(u) )
          => /\ last'.ret = None
             /\ last'.exc = None
             /\ memory' = memory
       ]_vars

\* C8 witness: a get_image has met an undecodable file while other entries
\* were resident.
C8_Witness ==
    /\ last.op = "get_image"
    /\ last.io = <<"disk_read", "decode_failed">>
    /\ last.ret = None
    /\ memory # <<>>
    /\ last.since = "nothing"

\* C9. Undecodable write is a miss: for every prior state, set_image(url,
\* bytes) with bytes that do not decode raises nothing, and a get_image(url)
\* that follows immediately returns None.
C9_UndecodableWriteIsMiss ==
    [][\A u \in URLs :
          /\ (\E b \in Undecodable : set_image(u, b)) => last'.exc = None
          /\ ( /\ last.op = "set_image" /\ last.url = u /\ last.since = "nothing"
               /\ last.bytes \in Undecodable
               /\ get_image(u) )
             => last'.ret = None
       ]_vars

(***************************************************************************)
(* Claims about the catalog.                                               *)
(***************************************************************************)

\* catalog.json holds what a set_catalog wrote: an object with a numeric
\* timestamp and a template list.
StoredCatalog ==
    /\ CatalogFileExists
    /\ catalog.fmt = "json"
    /\ Loads(catalog).is = "object"
    /\ Loads(catalog).ts_kind = "number"
    /\ Loads(catalog).templates \in Catalogs

\* now - timestamp of a stored catalog.
CatalogAge == now - Loads(catalog).timestamp

\* C5. Catalog TTL: set_catalog(templates) stores templates with the current
\* time; get_catalog(ttl) returns the stored templates unchanged while the
\* age is below ttl, None once the age exceeds ttl, and None when there is no
\* catalog file.
C5_CatalogTTL ==
    [][ /\ \A t \in Catalogs :
              set_catalog(t) =>
                  /\ StoredCatalog'
                  /\ Loads(catalog').templates = t
                  /\ Loads(catalog').timestamp = now
        /\ \A ttl \in TTLs :
              get_catalog(ttl) =>
                  /\ (StoredCatalog /\ CatalogAge < ttl) =>
                         (last'.ret = Loads(catalog).templates /\ last'.exc = None)
                  /\ (StoredCatalog /\ CatalogAge > ttl) =>
                         (last'.ret = None /\ last'.exc = None)
                  /\ ~CatalogFileExists => (last'.ret = None /\ last'.exc = None)
      ]_vars

\* C5 witness: a catalog of age 100,000 s was asked for with ttl 86,400 and
\* was absent.
C5_Witness ==
    /\ last.op = "get_catalog"
    /\ last.since = "nothing"
    /\ StoredCatalog
    /\ CatalogAge = 100000
    /\ last.ttl = 86400
    /\ last.ret = None

\* C6 as claimed: a stored catalog whose age equals the ttl is expired.
C6_BoundaryExpired ==
    [][\A ttl \in TTLs :
          (StoredCatalog /\ CatalogAge = ttl /\ get_catalog(ttl))
          => last'.ret = None
      ]_vars

\* C6, amended. Catalog TTL boundary: a stored catalog whose age equals the
\* ttl exactly is still fresh: get_catalog(ttl) returns its templates.
C6_BoundaryFresh ==
    [][\A ttl \in TTLs :
          (StoredCatalog /\ CatalogAge = ttl /\ get_catalog(ttl))
          => (last'.ret = Loads(catalog).templates /\ last'.exc = None)
      ]_vars

\* C6 witness: a catalog exactly one day old was returned with ttl 86,400.
C6_Witness ==
    /\ last.op = "get_catalog"
    /\ last.since = "nothing"
    /\ StoredCatalog
    /\ last.ttl = DEFAULT_TTL
    /\ CatalogAge = last.ttl
    /\ last.ret = Loads(catalog).templates

\* catalog.json is corrupt: text that is not JSON, JSON that is no object,
\* an object whose timestamp is missing or no number, an object without
\* templates.
CorruptCatalog ==
    /\ CatalogFileExists
    /\ \/ catalog.fmt # "json"
       \/ Loads(catalog).is # "object"
       \/ Loads(catalog).ts_kind # "number"
       \/ Loads(catalog).templates = "missing"

\* C7. Corrupt catalog is a miss, never an error: for every corrupt content
\* of the catalog file get_catalog returns None and raises nothing.
C7_CorruptCatalogIsMiss ==
    [][\A ttl \in TTLs :
          (CorruptCatalog /\ get_catalog(ttl))
          => (last'.ret = None /\ last'.exc = None)
      ]_vars

(***************************************************************************)
(* Claims about template resolution.                                       *)
(***************************************************************************)

\* What a call did to the registry: catalog cache reads and writes, listing
\* and single-item requests.
RegistryEvents == {"catalog_read", "catalog_write", "list_request", "item_request"}

\* The references that contain a path separator ("/" or a backslash).
WithSeparator == {"a/buzz", "a\\buzz", "http://e/buzz", "https://e/b.png"}

\* The references that end in a known image extension: a name, a dot, and
\* one of png, jpg, jpeg, gif, bmp, tiff, webp in either case. A reference
\* that is nothing but an extension (".png") names no file with an extension.
WithImageExtension == {"buzz.png", "buzz.PNG", "https://e/b.png"}

UrlRefs == {"http://e/buzz", "https://e/b.png"}

\* The stem of a URL's last path segment.
LastSegmentStem(ref) ==
    CASE ref = "http://e/buzz" -> "buzz"
      [] ref = "https://e/b.png" -> "b"

\* C11. URL references resolve as URLs: resolving a reference that begins with
\* http:// or https:// raises nothing and returns a Template whose image_url
\* is the reference and whose id is the stem of the last path segment.
C11_UrlResolvesAsUrl ==
    [][\A ref \in UrlRefs :
          resolve(ref)
          => /\ last'.exc = None
             /\ last'.ret.image_url = ref
             /\ last'.ret.id = LastSegmentStem(ref)
      ]_vars

\* The number of occurrences of an event in a call's record.
Count(io, event) == Cardinality({i \in 1..Len(io) : io[i] = event})

\* The references _resolve_template hands to the registry.
RegistryIds == Refs \ (WithSeparator \cup WithImageExtension)

\* C12. Catalog lookup order: a registry lookup that obtained the catalog
\* returns the Template built from the first entry with the id and makes no
\* single-item request when there is such an entry, and makes exactly one
\* single-item request, after every catalog access, when there is none.
C12_CatalogLookupOrder ==
    [][\A ref \in RegistryIds :
          (resolve(ref) /\ reg_catalog' # None)
          => LET entries == CatalogEntries(reg_catalog')
                 matches == {i \in 1..Len(entries) : entries[i].id = ref}
             IN  IF matches # {}
                 THEN /\ Count(last'.io, "item_request") = 0
                      /\ last'.exc = None
                      /\ \E i \in matches :
                            /\ \A j \in matches : i <= j
                            /\ last'.ret = from_api_data(entries[i])
                 ELSE /\ Count(last'.io, "item_request") = 1
                      /\ last'.io[Len(last'.io)] = "item_request"
      ]_vars

\* C12 witness: an id with two different catalog entries was resolved from
\* the first of them without a single-item request.
C12_Witness ==
    /\ last.op = "resolve"
    /\ last.ref = "buzz"
    /\ reg_catalog = "cat_paths"
    /\ last.exc = None
    /\ Len(last.ret.text_positions) = 2
    /\ Count(last.io, "item_request") = 0

\* C13. Not-found is typed and terminal: when the id is in no catalog entry and
\* the single-item lookup answers that there is no such template (404),
\* resolution raises TemplateNotFoundError, returns no Template, and the
\* single-item request is the only one of its kind and the call's last event.
C13_NotFoundTerminal ==
    [][\A ref \in RegistryIds :
          (resolve(ref) /\ last'.item = "404")
          => /\ last'.exc = "TemplateNotFoundError"
             /\ last'.ret = NoTemplate
             /\ Count(last'.io, "item_request") = 1
             /\ last'.io[Len(last'.io)] = "item_request"
             /\ reg_catalog' # None
             /\ \A i \in 1..Len(CatalogEntries(reg_catalog')) :
                   CatalogEntries(reg_catalog')[i].id # ref
      ]_vars

\* C13 witness: an id that is in no entry of the fetched catalog was looked up
\* singly, the answer was 404 and TemplateNotFoundError was raised.
C13_Witness ==
    /\ last.op = "resolve"
    /\ last.ref = "nope"
    /\ last.item = "404"
    /\ last.exc = "TemplateNotFoundError"
    /\ reg_catalog = "cat_buzz"
    /\ Count(last.io, "list_request") = 1

(***************************************************************************)
(* Claims about the layout of a Template.                                  *)
(***************************************************************************)

\* Floats as fractions <<p, q>>: equality and sum.
RatEq(a, b) == a[1] * b[2] = b[1] * a[2]
RatAdd(a, b) == <<a[1] * b[2] + b[1] * a[2], a[2] * b[2]>>

\* n bands of equal height, in index order from the top, touching, covering
\* [0, 1] over the full width.
IsBands(positions, n) ==
    /\ Len(positions) = n
    /\ \A i \in 1..n :
          /\ RatEq(positions[i].anchor_x, <<0, 1>>)
          /\ RatEq(positions[i].scale_x, <<1, 1>>)
          /\ RatEq(positions[i].anchor_y, <<i - 1, n>>)
          /\ RatEq(positions[i].scale_y, <<1, n>>)
    /\ RatEq(positions[1].anchor_y, <<0, 1>>)
    /\ \A i \in 1..(n - 1) :
          RatEq(RatAdd(positions[i].anchor_y, positions[i].scale_y),
                positions[i + 1].anchor_y)
    /\ RatEq(RatAdd(positions[n].anchor_y, positions[n].scale_y), <<1, 1>>)

\* C14. Slot distribution: a Template built by from_image with lines n > 2, or
\* from a catalog entry declaring lines n > 2, has exactly n text positions,
\* position i (from 0) with anchor_x 0, scale_x 1, anchor_y i/n, scale_y 1/n:
\* bands in index order that touch and cover [0, 1].
C14_SlotDistribution ==
    [][/\ \A p \in Refs, n \in LineCounts :
            (new_from_image(p, n) /\ n > 2) => IsBands(tpl'.text_positions, n)
       /\ \A data \in ApiEntries :
            (new_from_api_data(data) /\ data.lines_kind = "int" /\ data.lines > 2)
            => IsBands(tpl'.text_positions, data.lines)
      ]_vars

\* C14 witness: a Template built from a catalog entry declaring 4 lines has
\* four positions at 0, 1/4, 1/2 and 3/4, each 1/4 high.
C14_Witness ==
    /\ last.op = "from_api_data"
    /\ last.lines_kind = "int"
    /\ last.lines = 4
    /\ Len(tpl.text_positions) = 4
    /\ \A i \in 1..4 :
          /\ RatEq(tpl.text_positions[i].anchor_y, <<i - 1, 4>>)
          /\ RatEq(tpl.text_positions[i].scale_y, <<1, 4>>)

(***************************************************************************)
(* Claims about the shrink-to-fit loop.                                    *)
(***************************************************************************)

\* The last measurement of the call is within the 1.1x tolerance of the box.
LastMeasurementFits == Fits(fit.text_w, fit.text_h, fit.box_w, fit.box_h)

\* C17. Shrink-to-fit always terminates without error: whatever the callback
\* measures and whatever the starting size, a call makes at most 20
\* measurements, one per iteration, and then returns; an iteration that
\* measures text that does not fit while the size is at or below the floor (8)
\* ends the call with the size unchanged.
C17_FitTerminates ==
    /\ [](fit.n <= 20 /\ (fit.pc = "loop" => fit.n < 20))
    /\ [][fit_iteration
            => /\ fit'.n = fit.n + 1
               /\ fit'.pc \in {"loop", "done"}
               /\ ( ( /\ ~Fits(fit'.text_w, fit'.text_h, fit.box_w, fit.box_h)
                       /\ fit.size <= 8000 )
                     => fit'.pc = "done" /\ fit'.size = fit.size )
         ]_vars
    /\ (fit.pc = "loop") ~> (fit.pc = "done")

\* C17 witness: a call whose callback never measured a fit returned after its
\* 20th measurement.
C17_Witness ==
    /\ fit.pc = "done"
    /\ fit.n = 20
    /\ fit.measure.kind = "any"
    /\ ~LastMeasurementFits

\* What the linear callback of the call measures at the final size is within
\* the tolerance band.
LinearFitsAtFinalSize ==
    LET wh == LinearMeasure(fit.measure, fit.size)
    IN  Fits(wh[1], wh[2], fit.box_w, fit.box_h)

\* C18 as stated. Text-fit convergence: with a callback linear in the font
\* size the call returns within 20 measurements and the text measured at
\* the returned size is within the tolerance band.
C18_LinearConverges ==
    (fit.pc = "done" /\ fit.measure.kind = "linear")
    => fit.n <= 20 /\ LinearFitsAtFinalSize

\* C18, amended. With a callback linear in the font size the call returns
\* within 2 measurements, and the text measured at the returned size is
\* within the tolerance band unless the returned size is the floor (8) or a
\* starting size below it, which the call leaves unchanged.
C18_LinearConvergesOrFloor ==
    (fit.pc = "done" /\ fit.measure.kind = "linear")
    => /\ fit.n <= 2
       /\ \/ LinearFitsAtFinalSize
          \/ fit.size = 8000
          \/ fit.size < 8000 /\ fit.size = fit.start

\* C18 witness: text that did not fit at the starting size was shrunk once by
\* a linear callback's measurement and fits, above the floor.
C18_Witness ==
    /\ fit.pc = "done"
    /\ fit.measure.kind = "linear"
    /\ fit.n = 2
    /\ 8000 < fit.size /\ fit.size < fit.start
    /\ LinearFitsAtFinalSize

\* C19 as stated. Text-fit postcondition: when the call returns, the text
\* measured at the final size fits the box within the tolerance, or the final
\* size has reached the floor (8).
C19_FitsOrFloor ==
    fit.pc = "done"
    => \/ fit.measured_at = fit.size /\ LastMeasurementFits
       \/ fit.size <= 8000

\* C19, amended. When the call returns, the text measured at the final size
\* fits the box within the tolerance; or it does not and the final size is
\* the floor (8) or a starting size below it; or the 20 iterations are used
\* up: the last measurement did not fit, and the final size, set after it, is
\* smaller, not below the floor, and was not measured.
C19_FitsOrFloorOrExhausted ==
    fit.pc = "done"
    => \/ fit.measured_at = fit.size /\ LastMeasurementFits
       \/ /\ fit.measured_at = fit.size
          /\ ~LastMeasurementFits
          /\ fit.size = 8000 \/ (fit.size < 8000 /\ fit.size = fit.start)
       \/ /\ fit.n = 20
          /\ ~LastMeasurementFits
          /\ 8000 <= fit.size /\ fit.size < fit.measured_at

\* C19 witness: a call returned after 20 measurements with a size above the
\* floor that was never measured.
C19_Witness ==
    /\ fit.pc = "done"
    /\ fit.n = 20
    /\ fit.size > 8000
    /\ fit.measured_at > fit.size
    /\ ~LastMeasurementFits

(***************************************************************************)
(* Claims about the image of a Template.                                   *)
(***************************************************************************)

\* The image_url that are remote (http:// or https://).
RemoteUrls == {"https://e/b.png"}

\* C15. The image slot is set once: when the slot is populated, no step
\* changes it, whatever is done to the cache (writes, evictions, clear,
\* removed files), and a Template.get_image call, with or without a cache,
\* returns the slot's buffer without any cache, network or file access and
\* leaves the cache as it is.
C15_SlotSetOnce ==
    [][image_array # None
       => /\ image_array' = image_array
          /\ \A with_cache \in BOOLEAN :
                template_get_image(with_cache)
                => /\ last'.ret = image_array
                   /\ last'.exc = None
                   /\ last'.io = <<>>
                   /\ memory' = memory /\ images' = images /\ dirs' = dirs
      ]_vars

\* C15 witness: a call with the cache returned the slot's buffer while the
\* cache's memory tier held a different image for the Template's url.
C15_Witness ==
    /\ last.op = "template_get_image"
    /\ last.with_cache
    /\ last.io = <<>>
    /\ image_array # None
    /\ last.ret = image_array
    /\ HasKey(memory, image_key(tpl.image_url))
    /\ ValueOf(memory, image_key(tpl.image_url)) # image_array

\* A Template.get_image call with a cache, an unset slot and a cache miss,
\* that raises nothing.
AcquiredOnMiss ==
    /\ template_get_image(TRUE)
    /\ image_array = None
    /\ get_image_result(tpl.image_url).ret = None
    /\ last'.exc = None

\* C16 as stated, for a cache with max_memory >= 1. Write-through on a miss:
\* a call with an unset slot and a cache miss stores the decoded image in the
\* slot, and afterwards cache.get_image(image_url) returns it, for remote
\* URLs and local paths.
C16_WriteThroughOnMiss ==
    [][(AcquiredOnMiss /\ max_memory >= 1)
       => /\ image_array' = last'.ret
          /\ last'.ret = Decode(last'.bytes)
          /\ (get_image_result(tpl.image_url).ret)' = last'.ret
      ]_vars

\* C16, amended. A call with an unset slot and a cache miss stores the decoded
\* image in the slot. For a remote URL the downloaded bytes are written
\* through: afterwards the cache's file for the url holds them and, for a
\* cache with max_memory >= 1, cache.get_image(image_url) returns the image.
\* For a local path the image is read from the file and the cache is not
\* written: cache.get_image(image_url) is still a miss.
C16_DownloadsWrittenThrough ==
    [][AcquiredOnMiss
       => /\ image_array' = last'.ret
          /\ last'.ret = Decode(last'.bytes)
          /\ IF tpl.image_url \in RemoteUrls
             THEN /\ dirs'
                  /\ images'[image_key(tpl.image_url)] = last'.bytes
                  /\ max_memory >= 1
                       => (get_image_result(tpl.image_url).ret)' = last'.ret
             ELSE /\ memory' = memory /\ images' = images /\ dirs' = dirs
                  /\ (get_image_result(tpl.image_url).ret)' = None
      ]_vars

\* C16 witness: a download was written through, the cache evicting another
\* entry for it, and cache.get_image(image_url) is a hit.
C16_Witness ==
    /\ last.op = "template_get_image"
    /\ last.with_cache
    /\ last.since = "nothing"
    /\ last.url \in RemoteUrls
    /\ last.exc = None
    /\ \E i \in 1..Len(last.io) : last.io[i] = "cache_set"
    /\ last.evicted # None
    /\ image_array = last.ret
    /\ get_image_result(last.url).ret = last.ret

(***************************************************************************)
(* Claims about clear().                                                   *)
(***************************************************************************)

\* C20. clear() empties everything: after clear() the memory tier has no
\* entry and the cache directory tree does not exist, get_image(url) returns
\* None for every url and get_catalog returns None for every ttl; reads
\* leave it so; a later set_image or set_catalog raises nothing, recreates
\* the directories and writes its file.
C20_ClearEmptiesEverything ==
    [][/\ clear
          => /\ memory' = <<>>
             /\ ~dirs'
             /\ last'.exc = None
             /\ \A u \in URLs : (get_image_result(u).ret)' = None
             /\ \A ttl \in TTLs : (get_catalog_result(ttl).ret)' = None
       /\ (~dirs /\ memory = <<>>)
          => /\ \A u \in URLs :
                  get_image(u) => last'.ret = None /\ ~dirs' /\ memory' = <<>>
             /\ \A ttl \in TTLs :
                  get_catalog(ttl) => last'.ret = None /\ ~dirs' /\ memory' = <<>>
             /\ \A u \in URLs, b \in Bytes :
                  set_image(u, b)
                  => /\ last'.exc = None
                     /\ dirs'
                     /\ images'[image_key(u)] = b
             /\ \A t \in Catalogs :
                  set_catalog(t)
                  => /\ last'.exc = None
                     /\ dirs'
                     /\ (get_catalog_result(DEFAULT_TTL).ret)' = t
      ]_vars

\* C20 witness: clear() has emptied a full memory tier and removed the
\* directory tree, and nothing is found for any url or ttl.
C20_Witness ==
    /\ last.op = "clear"
    /\ last.dropped = MaxMemory
    /\ last.io = <<"rmtree">>
    /\ memory = <<>>
    /\ ~dirs
    /\ \A u \in URLs : get_image_result(u).ret = None
    /\ \A ttl \in TTLs : get_catalog_result(ttl).ret = None

(***************************************************************************)
(* Claims about the text functions.                                        *)
(***************************************************************************)

\* The maximal runs of characters outside seps, in order: text.split() for
\* the whitespace, the lines that are not empty for the line break.
RECURSIVE Fields(_, _)
Fields(chars, seps) ==
    IF chars = <<>> THEN <<>>
    ELSE IF Head(chars) \in seps THEN Fields(Tail(chars), seps)
    ELSE LET n == CHOOSE k \in 1..Len(chars) :
                      /\ \A i \in 1..k : chars[i] \notin seps
                      /\ k = Len(chars) \/ chars[k + 1] \in seps
         IN  <<SubSeq(chars, 1, n)>> \o Fields(SubSeq(chars, n + 1, Len(chars)), seps)

WordsOf(chars) == Fields(chars, Whitespace)
LinesOf(chars) == Fields(chars, {NL})

\* The characters that are not whitespace, in order.
RECURSIVE Inked(_)
Inked(chars) ==
    IF chars = <<>> THEN <<>>
    ELSE (IF Head(chars) \in Whitespace THEN <<>> ELSE <<Head(chars)>>)
             \o Inked(Tail(chars))

\* The call under observation returned its text as it was given.
WrapUnchanged == wrapped.exc = None /\ wrapped.ret = wrapped.text

\* The text is one both functions wrap: longer than the width, and without
\* line break when _smart_wrap is called.
WrapApplies ==
    /\ wrapped.op # "none"
    /\ Len(wrapped.text) > wrapped.width
    /\ wrapped.op = "_smart_wrap" => ~Contains(wrapped.text, NL)

\* C21 as stated. Wrapping: _smart_wrap returns a text with a line break
\* unchanged; a text no longer than the width (max(10, floor(25 x fraction)),
\* or max_chars_per_line for wrap_text) is returned unchanged; a longer text
\* is returned as lines no longer than the width whose words are, in order,
\* the words of the input.
C21_WrapKeepsWords ==
    /\ (wrapped.op = "_smart_wrap" /\ Contains(wrapped.text, NL)) => WrapUnchanged
    /\ (wrapped.op # "none" /\ Len(wrapped.text) <= wrapped.width) => WrapUnchanged
    /\ WrapApplies
       => /\ wrapped.exc = None
          /\ \A i \in 1..Len(LinesOf(wrapped.ret)) :
                Len(LinesOf(wrapped.ret)[i]) <= wrapped.width
          /\ WordsOf(wrapped.ret) = WordsOf(wrapped.text)

\* C21, amended. As stated, except: a longer text is returned as lines no
\* longer than the width that hold the characters of the input other than
\* whitespace, in order; its words are the words of the input when no word
\* of the input is longer than the width or holds a hyphen (a longer word is
\* broken at the width, a hyphenated word may be broken after the hyphen);
\* the width of _smart_wrap is max(10, floor(25 x fraction)); wrap_text
\* treats a line break as whitespace, and raises ValueError for a longer
\* text when max_chars_per_line is not positive.
C21_WrapKeepsCharacters ==
    /\ (wrapped.op = "_smart_wrap" /\ Contains(wrapped.text, NL)) => WrapUnchanged
    /\ (wrapped.op # "none" /\ Len(wrapped.text) <= wrapped.width) => WrapUnchanged
    /\ wrapped.op = "_smart_wrap" => wrapped.width >= 10
    /\ (WrapApplies /\ wrapped.width <= 0) => wrapped.exc = "ValueError"
    /\ (WrapApplies /\ wrapped.width > 0)
       => /\ wrapped.exc = None
          /\ \A i \in 1..Len(LinesOf(wrapped.ret)) :
                Len(LinesOf(wrapped.ret)[i]) <= wrapped.width
          /\ Inked(wrapped.ret) = Inked(wrapped.text)
          /\ (\A i \in 1..Len(WordsOf(wrapped.text)) :
                 /\ Len(WordsOf(wrapped.text)[i]) <= wrapped.width
                 /\ ~Contains(WordsOf(wrapped.text)[i], "-"))
             => WordsOf(wrapped.ret) = WordsOf(wrapped.text)

\* C21 witness: _smart_wrap has wrapped a text with a word longer than the
\* width, and the word is in two pieces.
C21_Witness ==
    /\ wrapped.op = "_smart_wrap"
    /\ wrapped.width = 10
    /\ ~Contains(wrapped.text, NL)
    /\ Contains(wrapped.ret, NL)
    /\ Len(WordsOf(wrapped.ret)) > Len(WordsOf(wrapped.text))

\* C22. URL text encoding round-trips: decoding the encoding of a plain text
\* over the characters of the encoding table gives the text back.
C22_RoundTrip ==
    coded.op = "decode_text_from_url" => coded.ret = coded.plain

(***************************************************************************)
(* Claims about rendering and the Meme builder.                            *)
(***************************************************************************)

\* The positions the last render drew in.
RenderPositions ==
    IF last.op = "render_meme" THEN tpl.text_positions
    ELSE MemifyPositions(last.position)

\* The indices of the lines the last render has to draw.
DrawnIndices ==
    {i \in 0..(Len(last.lines) - 1) :
        last.lines[i + 1] # <<>> /\ i < Len(RenderPositions)}

\* C23. Line-to-slot mapping: a render that returns has created one Text for
\* each index i with lines[i] not empty and i below the number of positions,
\* and no other; the Text of line i is drawn in position i; the presets top,
\* bottom and center have one position, top-bottom and an unknown preset two.
C23_LineToSlot ==
    (last.op \in {"render_meme", "render_memify"} /\ last.exc = None)
    => /\ Len(texts) = Cardinality(DrawnIndices)
       /\ {texts[k].index : k \in 1..Len(texts)} = DrawnIndices
       /\ \A k \in 1..Len(texts) :
             texts[k].pos = RenderPositions[texts[k].index + 1]
       /\ last.op = "render_memify"
          => Len(RenderPositions) =
                 IF last.position \in {"top", "bottom", "center"} THEN 1 ELSE 2

\* C23 witness: three lines rendered on a Template of two positions, the
\* first line empty: one Text, of line 1, in the second position.
C23_Witness ==
    /\ last.op = "render_meme"
    /\ last.exc = None
    /\ Len(last.lines) = 3
    /\ last.lines[1] = <<>>
    /\ last.lines[2] # <<>>
    /\ last.lines[3] # <<>>
    /\ Len(tpl.text_positions) = 2
    /\ Len(texts) = 1
    /\ texts[1].index = 1
    /\ texts[1].pos = DEFAULT_TEXT_POSITIONS[2]

\* C24. Meme builder lines: text(i, t) with i >= 0 leaves a list of length
\* max(previous length, i + 1) with t at i, the other old entries unchanged
\* and the new ones empty; top(t) does what text(0, t) does and bottom(t)
\* what text(1, t) does; each call returns the Meme itself.
C24_BuilderLines ==
    [][\A t \in LineTexts :
         /\ \A i \in 0..MaxIndex :
               meme_text(i, t)
               => /\ Len(meme_lines') = Max(Len(meme_lines), i + 1)
                  /\ meme_lines'[i + 1] = t
                  /\ \A j \in 1..Len(meme_lines') :
                        j # i + 1
                        => meme_lines'[j] = IF j <= Len(meme_lines)
                                            THEN meme_lines[j] ELSE ""
                  /\ last'.ret = "self"
         /\ top(t) => /\ meme_lines' = text_result(meme_lines, 0, t).lines
                      /\ last'.ret = "self"
         /\ bottom(t) => /\ meme_lines' = text_result(meme_lines, 1, t).lines
                         /\ last'.ret = "self"
      ]_vars

\* C24 witness: text(3, "y") on a list of one line has made two empty lines.
C24_Witness ==
    /\ last.op = "text"
    /\ last.index = 3
    /\ meme_lines = <<"x", "", "", "y">>

(***************************************************************************)
(* Claims about the two tiers together.                                    *)
(***************************************************************************)

\* C25. Disk entries survive memory eviction: with max_memory >= 1, set_image
\* of decodable bytes and get_image only, a disk file stays until set_image
\* writes it again, it holds the bytes of the last set_image for its url, and
\* get_image of a url with a disk file returns an image.
C25_DiskSurvivesEviction ==
    [][/\ dirs => dirs'
       /\ \A k \in Keys :
             images[k] # NoFile
             => /\ images'[k] # NoFile
                /\ images'[k] # images[k]
                   => /\ last'.op = "set_image"
                      /\ image_key(last'.url) = k
                      /\ last'.bytes = images'[k]
       /\ \A u \in URLs, b \in Decodable :
             set_image(u, b) => dirs' /\ images'[image_key(u)] = b
       /\ \A u \in URLs :
             (get_image(u) /\ ImageFileExists(image_key(u)))
             => last'.ret \in {Decode(b) : b \in Decodable}
      ]_vars

\* C25 witness: get_image has found on disk an image that is not in memory any
\* more, and has evicted another one to take it back.
C25_Witness ==
    /\ last.op = "get_image"
    /\ last.io = <<"disk_read", "memory_put">>
    /\ last.evicted # None
    /\ last.ret # None
    /\ Len(memory) = max_memory


(***************************************************************************)
(* Claims about the TemplateRegistry and the library as a whole.           *)
(***************************************************************************)

\* The calls of a registry that read its catalog.
QueryOps == {"get", "search", "list_all"}

\* A step of get, search or list_all whose listing request, if it makes one,
\* is answered with lresp.
QueryStep(lresp) ==
    \/ \E id \in LookupIds, iresp \in ItemResponses : get(id, lresp, iresp)
    \/ \E q \in Queries : search(q, lresp)
    \/ list_all(lresp)

\* The disk catalog is there and is at most DEFAULT_TTL seconds old.
FreshDiskCatalog ==
    /\ CatalogFileExists
    /\ now - Loads(catalog).timestamp <= DEFAULT_TTL

\* C26 as stated. The catalog is fetched at most once per registry: the first
\* get/search/list_all of a registry makes no listing request when the disk
\* catalog is fresh and exactly one otherwise, whose result is written to the
\* slot and (cache enabled) to the disk catalog; every later get/search/
\* list_all of that registry makes no listing request and reads no disk
\* catalog.
C26_FetchedOncePerRegistry ==
    [][\A lresp \in ListResponses :
         QueryStep(lresp)
         => IF last.op = "init"
            THEN IF FreshDiskCatalog
                 THEN Count(last'.io, "list_request") = 0
                 ELSE /\ Count(last'.io, "list_request") = 1
                      /\ lresp # "error"
                         => /\ reg_catalog' = lresp
                            /\ cache_enabled => catalog' = set_catalog_text(lresp)
            ELSE last.op \in QueryOps
                 => /\ Count(last'.io, "list_request") = 0
                    /\ Count(last'.io, "catalog_read") = 0
      ]_vars

\* C26, amended. Once the slot of a registry is loaded, get/search/list_all
\* make no listing request and read no disk catalog, and leave slot and disk
\* catalog alone. While the slot is unset: the disk catalog is read only with
\* the cache enabled, and a fresh one loads the slot with no listing request;
\* otherwise the call makes exactly one listing request; an answered request
\* loads the slot and (cache enabled only) overwrites the disk catalog, a
\* failed one raises HTTPError and leaves slot and disk catalog as they were,
\* so that the next call asks again.
C26_FetchedOnceLoaded ==
    [][\A lresp \in ListResponses :
         QueryStep(lresp)
         => IF reg_catalog # None
            THEN /\ Count(last'.io, "list_request") = 0
                 /\ Count(last'.io, "catalog_read") = 0
                 /\ reg_catalog' = reg_catalog
                 /\ catalog' = catalog
            ELSE /\ ~cache_enabled => Count(last'.io, "catalog_read") = 0
                 /\ IF cache_enabled /\ FreshDiskCatalog
                    THEN /\ Count(last'.io, "list_request") = 0
                         /\ reg_catalog' = Loads(catalog).templates
                         /\ catalog' = catalog
                    ELSE /\ Count(last'.io, "list_request") = 1
                         /\ last'.listing = lresp
                         /\ IF lresp = "error"
                            THEN /\ last'.exc = "HTTPError"
                                 /\ reg_catalog' = None
                                 /\ catalog' = catalog
                            ELSE /\ reg_catalog' = lresp
                                 /\ catalog' = IF cache_enabled
                                               THEN set_catalog_text(lresp)
                                               ELSE catalog
      ]_vars

\* C26 witness: a day and a second after the catalog was fetched, with the
\* disk catalog expired, a call is answered from the slot with no request and
\* no read.
C26_Witness ==
    /\ last.op \in QueryOps
    /\ last.io = <<>>
    /\ reg_catalog # None
    /\ CatalogFileExists
    /\ now - Loads(catalog).timestamp > DEFAULT_TTL


\* C27. The TTL holds through the registry: the catalog that a get, search or
\* list_all of a registry answers from was fetched at most DEFAULT_TTL
\* seconds before the call; an older one is fetched again, not served.
C27_ServedWithinTTL ==
    [][\A lresp \in ListResponses :
         (QueryStep(lresp) /\ reg_catalog' # None)
         => /\ now - fetched_at' <= DEFAULT_TTL
            /\ (reg_catalog # None /\ now - fetched_at > DEFAULT_TTL)
               => Count(last'.io, "list_request") = 1
      ]_vars


\* C28. One layout rule on both paths: a Template built from a catalog entry
\* declaring lines n >= 1 has the text_positions of from_image(lines=n), and
\* an entry whose line count is absent or unparseable those of
\* from_image(lines=2).
C28_SameLayoutOnBothPaths ==
    [][\A data \in ApiEntries :
         new_from_api_data(data)
         => LET n == IF data.lines_kind = "int" THEN data.lines ELSE 2
            IN  n >= 1
                => tpl'.text_positions = from_image("buzz.png", n).text_positions
      ]_vars


(***************************************************************************)
(* Claims about failed acquisitions.                                       *)
(***************************************************************************)

\* The fetches of an acquisition, from the network or from a local file.
Fetches(io) == Count(io, "remote_fetch") + Count(io, "local_open")

\* C29. Failed acquisition changes nothing: when Template.get_image misses
\* the cache and the fetch fails (request error, missing local file) or the
\* fetched bytes do not decode, the error is raised to the caller, the slot
\* stays unset, memory tier and disk tier are as before (bytes that do not
\* decode are never written), and exactly one fetch was made; such a fetch
\* always fails; and every call with an unset slot and a cache starts from
\* the cache lookup.
C29_FailedAcquisitionChangesNothing ==
    [][\A with_cache \in BOOLEAN :
         template_get_image(with_cache)
         => /\ last'.exc # None
               => /\ last'.exc \in {"HTTPError", "FileNotFoundError",
                                    "UnidentifiedImageError"}
                  /\ last'.ret = None
                  /\ image_array = None
                  /\ image_array' = None
                  /\ memory' = memory
                  /\ recency' = recency
                  /\ images' = images
                  /\ dirs' = dirs
                  /\ Fetches(last'.io) = 1
                  /\ Count(last'.io, "cache_set") = 0
                  /\ Count(last'.io, "disk_write") = 0
            /\ (Fetches(last'.io) = 1
                  /\ \/ last'.bytes \in Undecodable \cup {"error"}
                     \/ Count(last'.io, "local_read") = 0
                           /\ Count(last'.io, "remote_fetch") = 0)
               => last'.exc # None
            /\ (image_array = None /\ with_cache)
               => /\ Len(last'.io) >= 1
                  /\ last'.io[1] = "cache_get"
      ]_vars

\* C29 witness: with a cache, on a miss, the download did not decode; the
\* error was raised, the slot is unset and the cache has no file for the url.
C29_Witness ==
    /\ last.op = "template_get_image"
    /\ last.with_cache
    /\ last.since = "nothing"
    /\ last.url \in RemoteUrls
    /\ last.bytes \in Undecodable
    /\ last.exc = "UnidentifiedImageError"
    /\ image_array = None
    /\ images[image_key(last.url)] = NoFile


(***************************************************************************)
(* Claims about config.cache_enabled.                                      *)
(***************************************************************************)

\* A call of the library: a registry operation or meme().
LibraryStep ==
    \E lresp \in MemeListResponses :
       \/ \E id \in MemeRefs, iresp \in MemeItemResponses : get(id, lresp, iresp)
       \/ \E q \in Queries : search(q, lresp)
       \/ list_all(lresp)
       \/ refresh(lresp)
       \/ \E ref \in MemeRefs, l \in MemeLines, iresp \in MemeItemResponses :
             meme(ref, l, "upper", lresp, iresp)

\* The events of a call that read or write the on-disk cache.
DiskEvents == {"catalog_read", "catalog_write", "disk_read", "disk_write"}

\* C30. Disabling the cache disables disk caching: while config.cache_enabled
\* is False, no call of the library reads or writes the on-disk cache, neither
\* the catalog file nor an image file.
C30_DisabledCacheTouchesNoDisk ==
    [][(LibraryStep /\ ~cache_enabled)
       => /\ \A i \in 1..Len(last'.io) : last'.io[i] \notin DiskEvents
          /\ catalog' = catalog
          /\ images' = images
          /\ dirs' = dirs
      ]_vars


(***************************************************************************)
(* Claims about a cache of capacity zero.                                  *)
(***************************************************************************)

\* C35. Zero capacity degrades to disk-only: with max_memory = 0, set_image
\* of decodable bytes raises nothing and writes the disk file, the memory
\* tier stays empty, and get_image of a url with a decodable disk file
\* returns the decoded image, on every call.
C35_ZeroCapacityDiskOnly ==
    [][\A u \in URLs :
         /\ \A b \in Decodable :
               (set_image(u, b) /\ max_memory = 0)
               => /\ last'.exc = None
                  /\ images'[image_key(u)] = b
                  /\ memory' = <<>>
         /\ (get_image(u) /\ max_memory = 0
                /\ ImageFileExists(image_key(u))
                /\ images[image_key(u)] \in Decodable)
            => /\ last'.ret = Decode(images[image_key(u)])
               /\ memory' = <<>>
      ]_vars


(***************************************************************************)
(* Claims about the sizes _fit_text_to_box sets.                           *)
(***************************************************************************)

Min(a, b) == IF a <= b THEN a ELSE b

\* C34. Shrink-to-fit only shrinks and respects the floor: an iteration either
\* stops the loop and leaves the size, or sets a strictly smaller size that
\* is not below the floor; at every point of a call the size is at most the
\* starting size and at least min(starting size, floor); a starting size at
\* or below the floor is never changed.
C34_OnlyShrinksAboveFloor ==
    /\ [](fit.pc # "idle"
            => /\ fit.size <= fit.start
               /\ fit.size >= Min(fit.start, min_fontsize)
               /\ fit.start <= min_fontsize => fit.size = fit.start)
    /\ [][fit_iteration
            => \/ /\ fit'.size = fit.size
                  /\ fit'.pc = "done"
                  /\ fit'.why \in {"fits", "floor"}
               \/ /\ fit'.size < fit.size
                  /\ fit'.size >= min_fontsize
                  /\ fit.size > min_fontsize
         ]_vars

\* C34 witness: a call that started above the floor has shrunk the size twice
\* and then a third time, down to the floor.
C34_Witness ==
    /\ fit.pc = "done"
    /\ fit.n >= 3
    /\ fit.size = min_fontsize
    /\ fit.measured_at > fit.size
    /\ fit.measured_at < fit.start


(***************************************************************************)
(* Claims about the Meme object.                                           *)
(***************************************************************************)

\* What a render of the Meme's lines as they are now draws.
DrawnNow ==
    draw_lines(0, tpl.text_positions,
               [i \in 1..Len(meme_lines) |-> LineChars(meme_lines[i])], "upper")

\* The requests of a resolution.
Requests(io) == Count(io, "list_request") + Count(io, "item_request")

\* C36. Meme renders lazily and once for show/save: constructing a Meme from
\* a template string resolves nothing; a render resolves the template exactly
\* when it is not resolved yet, and a resolved template is kept and never
\* resolved again; show() and save() call render exactly when there is no
\* figure, and otherwise present the figure of the last render as it is,
\* whatever top/bottom/text have made of the lines since; render() draws the
\* lines as they are.
C36_LazyRenderOnce ==
    [][/\ \A t \in MemeTemplates, l \in InitialLines :
             new_meme(t, l)
             => /\ tpl' = NoTemplate
                /\ meme_fig' = NoFigure
                /\ last'.io = <<>>
                /\ reg_catalog' = reg_catalog
                /\ catalog' = catalog
       /\ (render \/ show \/ save)
          => /\ last'.rendered
                => /\ last'.resolved = (tpl = NoTemplate)
                   /\ (last'.exc = None) = (meme_fig' # NoFigure /\ meme_fig'.texts = DrawnNow')
             /\ tpl # NoTemplate
                => /\ tpl' = tpl
                   /\ Requests(last'.io) = 0
                   /\ reg_catalog' = reg_catalog
       /\ render => last'.rendered
       /\ (show \/ save)
          => /\ last'.rendered = (meme_fig = NoFigure)
             /\ meme_fig # NoFigure
                => /\ meme_fig' = meme_fig
                   /\ last'.shown = meme_fig
                   /\ last'.io = <<>>
                   /\ last'.exc = None
             /\ last'.exc = None => last'.shown = meme_fig'
      ]_vars

\* C36 witness: after a render the lines were changed, and show() has
\* presented the figure of that render, which is not what the lines draw now.
C36_Witness ==
    /\ last.op = "show"
    /\ ~last.rendered
    /\ last.shown = meme_fig
    /\ tpl # NoTemplate
    /\ meme_fig.texts # DrawnNow


(***************************************************************************)
(* Claims about threads.                                                   *)
(***************************************************************************)

\* C31. LRU access is serialized under concurrency: with two threads in
\* get_image and set_image of one TemplateCache (max_memory >= 1), in every
\* interleaving the memory tier holds at most max_memory entries, and no call
\* fails on an entry that another thread's eviction took away between the
\* call's check and its use (no KeyError reaches a caller).
C31_SerializedLRU ==
    /\ Len(memory) <= max_memory
    /\ \A t \in Threads : threads[t].exc = None

\* C32. Disk writes are atomic to readers: a thread that reads the image file
\* of a url while another thread is in set_image for that url never opens a
\* half-written file; it finds no file, or the complete bytes of an earlier
\* or of the running set_image.
C32_AtomicDiskWrites ==
    \A t \in Threads : threads[t].seen \in {None, NoFile} \cup ThreadBytes


\* C33. The in-process catalog slot is consistent under concurrency: with
\* list_all, get and refresh running in two threads on one registry, every
\* list_all that returns yields a catalog list, never None, get never fails
\* on a catalog that is None, and the disk catalog, when written, holds a
\* catalog list.
C33_SlotConsistent ==
    /\ \A t \in Threads :
          /\ (threads[t].pc = "done" /\ threads[t].op = "list_all"
                 /\ threads[t].exc = None)
             => threads[t].ret # None
          /\ threads[t].exc # "TypeError"
    /\ CatalogFileExists => Loads(catalog).templates # None

====
